---- MODULE Spec2Model ----
(***************************************************************************)
(* A model of the network-exporters GraphML pipeline:                      *)
(*   - formatters/graphml/helpers.js  (codebook lookups, type inference)   *)
(*   - the preprocessing pipeline     (resequenceIds)                      *)
(*   - the GraphML formatter          (generateKeyElements,                *)
(*     generateEgoDataElements, generateDataElements, graphMLGenerator)    *)
(*                                                                         *)
(* Fragments are modelled by their content (the <key> declarations, the    *)
(* elements and their <data> children) instead of by their XML text.       *)
(***************************************************************************)
EXTENDS Integers, Sequences, FiniteSets, TLC

(***************************************************************************)
(* Reserved property names (utils/reservedAttributes) and JS undefined.    *)
(***************************************************************************)
UNDEF == "undefined"
ncTypeProperty == "networkCanvasType"
ncUUIDProperty == "networkCanvasUUID"
ncSourceUUID == "networkCanvasSourceUUID"
ncTargetUUID == "networkCanvasTargetUUID"

(***************************************************************************)
(* JavaScript values held by attributes.  t is the kind of value:          *)
(*   "null"    null or undefined                                           *)
(*   "int"     a number with Number.isInteger, s its decimal text          *)
(*   "double"  a number with a fraction, s its decimal text                *)
(*   "string"  a string, s its text                                        *)
(*   "boolean" s is "true" or "false"                                      *)
(*   "object"  a layout object {x, y}; x and y in millionths               *)
(*   "array"   an array of option values, sel                              *)
(***************************************************************************)
Val(t, s) == [t |-> t, s |-> s, sel |-> <<>>, x |-> 0, y |-> 0]
Nil == Val("null", "")
LayoutVal(x, y) == [t |-> "object", s |-> "", sel |-> <<>>, x |-> x, y |-> y]
ArrayVal(sel) == [t |-> "array", s |-> "", sel |-> sel, x |-> 0, y |-> 0]

\* Strings s with String(Number.parseInt(s, 10)) === s, among the texts used.
IntStrings == {"0", "1", "2", "3"}
\* Strings s with String(Number.parseFloat(s)) === s that are not IntStrings.
DoubleStrings == {"2.5", "0.5"}

\* !!v
Truthy(v) ==
  CASE v.t = "null" -> FALSE
    [] v.t = "int" -> v.s /= "0"
    [] v.t = "string" -> v.s /= ""
    [] v.t = "boolean" -> v.s = "true"
    [] OTHER -> TRUE

\* typeof v === 'object'
IsObject(v) == v.t \in {"null", "object", "array"}

RECURSIVE Join(_)
Join(sel) ==
  IF sel = <<>> THEN ""
  ELSE IF Len(sel) = 1 THEN sel[1]
  ELSE sel[1] \o "," \o Join(Tail(sel))

\* The text createTextNode makes of a value: String(v).
Text(v) ==
  CASE v.t = "null" -> "null"
    [] v.t = "object" -> "[object Object]"
    [] v.t = "array" -> Join(v.sel)
    [] OTHER -> v.s

\* A <data> child (or a <data> of the graph): its key and its text.  n holds
\* the number of a coordinate: in hundredths where toFixed(2) printed it, in
\* millionths where the coordinate is given as it is.
Datum(key, text) == [key |-> key, text |-> text, n |-> 0]
NumDatum(key, text, n) == [key |-> key, text |-> text, n |-> n]

(***************************************************************************)
(* sha1: a digest, modelled as an injective tagging of the text (no        *)
(* collisions, and no plain key looks like a digest).                      *)
(***************************************************************************)
sha1(text) == "sha1:" \o text

(***************************************************************************)
(* Entities.  attrs is the attributes object: its [k, v] entries in        *)
(* Object.keys order, every key once.                                      *)
(***************************************************************************)
\* undefined where the program otherwise holds an export ID.
NoID == 0

\* uid is the primary key, ego the field named by egoProperty.
Entity(uid, type, attrs) ==
  [uid |-> uid, type |-> type, attrs |-> attrs, sid |-> UNDEF,
   exportID |-> NoID, from |-> NoID, to |-> NoID,
   srcUUID |-> UNDEF, tgtUUID |-> UNDEF, ego |-> UNDEF]

getEntityAttributes(entity) == entity.attrs

AttrKeysOf(attrs) == [i \in 1..Len(attrs) |-> attrs[i].k]

HasAttr(attrs, key) == \E i \in 1..Len(attrs) : attrs[i].k = key

\* attrs[key]
AttrValue(attrs, key) ==
  IF HasAttr(attrs, key)
  THEN attrs[CHOOSE i \in 1..Len(attrs) : attrs[i].k = key].v
  ELSE Nil

(***************************************************************************)
(* Codebook: [node |-> [subtype -> def], edge |-> [subtype -> def],        *)
(* ego |-> def], def == [name, variables]; variables is the variables      *)
(* object: its entries [k, name, type, options] in key order.  A missing   *)
(* name or type is UNDEF.                                                  *)
(***************************************************************************)
VarDef(k, name, type, options) ==
  [k |-> k, name |-> name, type |-> type, options |-> options]

NoVar == VarDef(UNDEF, UNDEF, UNDEF, <<>>)

FindVar(variables, key) ==
  IF \E i \in 1..Len(variables) : variables[i].k = key
  THEN variables[CHOOSE i \in 1..Len(variables) : variables[i].k = key]
  ELSE NoVar

getVariableInfo(codebook, type, entity, key) ==
  IF type \in {"node", "edge"} /\ entity.type \in DOMAIN codebook[type]
  THEN FindVar(codebook[type][entity.type].variables, key)
  ELSE NoVar

getEgoVariableInfo(codebook, key) == FindVar(codebook.ego.variables, key)

\* Returns UNDEF when the variable or the property is missing.
getAttributePropertyFromCodebook(codebook, type, element, key, attributeProperty) ==
  LET variableInfo == IF type = "ego" THEN getEgoVariableInfo(codebook, key)
                      ELSE getVariableInfo(codebook, type, element, key)
  IN CASE attributeProperty = "name" -> variableInfo.name
       [] attributeProperty = "type" -> variableInfo.type
       [] OTHER -> UNDEF

getOptionsFromCodebook(codebook, type, element, key) ==
  (IF type = "ego" THEN getEgoVariableInfo(codebook, key)
   ELSE getVariableInfo(codebook, type, element, key)).options

\* A property value that is undefined or "" is falsy.
Defined(p) == p /= UNDEF /\ p /= ""

(***************************************************************************)
(* getGraphMLTypeForKey: the reduce over the entities, result starting     *)
(* at ''.                                                                  *)
(***************************************************************************)
TypeStep(result, v) ==
  IF v.t = "null" THEN result
  ELSE
    LET typeofV == CASE v.t \in {"int", "double"} -> "number"
                     [] v.t \in {"object", "array"} -> "object"
                     [] OTHER -> v.t
        isIntStr == v.t = "string" /\ v.s \in IntStrings
        isDblStr == v.t = "string" /\ v.s \in DoubleStrings
        current1 == IF typeofV = "number" THEN v.t ELSE typeofV
    IN IF typeofV = "number" /\ result /= "" /\ current1 /= result THEN "double"
       ELSE IF isIntStr /\ result = "double" THEN "double"
       ELSE IF isDblStr /\ result = "int" THEN "double"
       ELSE LET currentType == IF isIntStr THEN "int"
                               ELSE IF isDblStr THEN "double"
                               ELSE current1
            IN IF currentType = result \/ result = "" THEN currentType
               ELSE "string"

\* The reduce over data[lo..hi]: over the first half to its end (the test
\* on first has it computed there), then over the second half.
RECURSIVE TypeReduce(_, _, _, _, _)
TypeReduce(data, key, result, lo, hi) ==
  IF lo > hi THEN result
  ELSE IF lo = hi
  THEN TypeStep(result, AttrValue(getEntityAttributes(data[lo]), key))
  ELSE LET first == TypeReduce(data, key, result, lo, (lo + hi) \div 2)
       IN IF first = ""
          THEN TypeReduce(data, key, "", (lo + hi) \div 2 + 1, hi)
          ELSE TypeReduce(data, key, first, (lo + hi) \div 2 + 1, hi)

getGraphMLTypeForKey(data, key) == TypeReduce(data, key, "", 1, Len(data))

(***************************************************************************)
(* generateKeyElements: the <key> declarations of one collection.  A key   *)
(* is [id, name, atype, for]; atype is UNDEF when attr.type is never set.  *)
(***************************************************************************)
Key(id, name, atype, for) == [id |-> id, name |-> name, atype |-> atype, for |-> for]

InSeq(x, seq) == \E i \in 1..Len(seq) : seq[i] = x

\* The declarations made before the main loop, and what they push on done.
ReservedKeys(type, excludeList) ==
  IF type = "node"
  THEN (IF ~InSeq("label", excludeList)
        THEN <<Key("label", "label", "string", "all")>> ELSE <<>>)
       \o (IF ~InSeq("type", excludeList)
           THEN <<Key(ncTypeProperty, ncTypeProperty, "string", "all")>> ELSE <<>>)
       \o (IF ~InSeq("uuid", excludeList)
           THEN <<Key(ncUUIDProperty, ncUUIDProperty, "string", "all")>> ELSE <<>>)
  ELSE IF type = "edge"
  THEN <<Key(ncTargetUUID, ncTargetUUID, "string", "edge"),
         Key(ncSourceUUID, ncSourceUUID, "string", "edge")>>
  ELSE <<>>

ReservedDone(type, excludeList) ==
  IF type = "node"
  THEN (IF ~InSeq("label", excludeList) THEN <<"label">> ELSE <<>>)
       \o (IF ~InSeq("type", excludeList) THEN <<"type">> ELSE <<>>)
       \o (IF ~InSeq("uuid", excludeList) THEN <<"uuid">> ELSE <<>>)
  ELSE IF type = "edge" THEN <<"originalEdgeSource">>
  ELSE <<>>

\* The <key>s of a categorical variable: one per option, in option order
\* (the last one is keyElement itself); keyElement as it stands, without
\* attr.type, when there is no option.
CategoricalKeys(key, keyName, options, keyTarget) ==
  IF options = <<>> THEN <<Key(key, keyName, UNDEF, keyTarget)>>
  ELSE [i \in 1..Len(options) |->
          Key(key \o "_" \o sha1(options[i]), keyName \o "_" \o options[i],
              "boolean", keyTarget)]

\* The <key>s declared for one attribute key of one element (the body of the
\* inner loop, once the done and excludeList test has passed).
KeysForAttribute(entities, type, codebook, element, key) ==
  LET name == getAttributePropertyFromCodebook(codebook, type, element, key, "name")
      keyName == IF Defined(name) THEN name ELSE key
      keyTarget == IF type = "ego" THEN "graph" ELSE type
      variableType == getAttributePropertyFromCodebook(codebook, type, element, key, "type")
      id == IF Defined(variableType) THEN key ELSE sha1(key)
  IN CASE variableType = "boolean" -> <<Key(id, keyName, variableType, keyTarget)>>
       [] variableType \in {"ordinal", "number"} ->
            LET keyType == getGraphMLTypeForKey(entities, key)
            IN <<Key(id, keyName, IF keyType /= "" THEN keyType ELSE "string", keyTarget)>>
       [] variableType = "layout" ->
            <<Key(key \o "_X", keyName \o "_X", "double", keyTarget),
              Key(key \o "_Y", keyName \o "_Y", "double", keyTarget)>>
       [] variableType = "categorical" ->
            CategoricalKeys(key, keyName,
                            getOptionsFromCodebook(codebook, type, element, key), keyTarget)
       [] variableType = "scalar" -> <<Key(id, keyName, "float", keyTarget)>>
       [] OTHER -> <<Key(id, keyName, "string", keyTarget)>>

\* The test of the inner loop.
ShouldDeclare(done, excludeList, codebook, type, element, key) ==
  LET name == getAttributePropertyFromCodebook(codebook, type, element, key, "name")
      keyName == IF Defined(name) THEN name ELSE key
  IN ~InSeq(key, done) /\ ~InSeq(keyName, excludeList)

\* acc == [done, fragment]; the loop over the attributes of one element.
RECURSIVE KeyAttrLoop(_, _, _, _, _, _, _)
KeyAttrLoop(acc, keys, entities, type, excludeList, codebook, element) ==
  IF keys = <<>> THEN acc
  ELSE LET key == Head(keys)
           acc2 == IF ShouldDeclare(acc.done, excludeList, codebook, type, element, key)
                   THEN [done |-> Append(acc.done, key),
                         fragment |-> acc.fragment
                            \o KeysForAttribute(entities, type, codebook, element, key)]
                   ELSE acc
       IN KeyAttrLoop(acc2, Tail(keys), entities, type, excludeList, codebook, element)

\* The main loop over entities[lo..hi]: over the first half to its end (the
\* test on first has it computed there), then over the second half.
RECURSIVE KeyEntityLoop(_, _, _, _, _, _, _)
KeyEntityLoop(acc, lo, hi, entities, type, excludeList, codebook) ==
  IF lo > hi THEN acc
  ELSE IF lo = hi
  THEN KeyAttrLoop(acc, AttrKeysOf(getEntityAttributes(entities[lo])),
                   entities, type, excludeList, codebook, entities[lo])
  ELSE LET first == KeyEntityLoop(acc, lo, (lo + hi) \div 2, entities, type,
                                  excludeList, codebook)
       IN IF first.done = <<>>
          THEN KeyEntityLoop([first EXCEPT !.done = <<>>], (lo + hi) \div 2 + 1, hi,
                             entities, type, excludeList, codebook)
          ELSE KeyEntityLoop(first, (lo + hi) \div 2 + 1, hi,
                             entities, type, excludeList, codebook)

generateKeyElements(entities, type, excludeList, codebook) ==
  KeyEntityLoop([done |-> ReservedDone(type, excludeList),
                 fragment |-> ReservedKeys(type, excludeList)],
                1, Len(entities), entities, type, excludeList, codebook).fragment

(***************************************************************************)
(* The <data> of the attributes of one entity, shared in shape by          *)
(* generateDataElements and generateEgoDataElements.                       *)
(***************************************************************************)
IncludesFirst(v, optionValue) == v.t = "array" /\ v.sel /= <<>> /\ v.sel[1] = optionValue

\* lodash includes(collection, value)
Includes(v, optionValue) ==
  CASE v.t = "array" -> InSeq(optionValue, v.sel)
    [] v.t = "string" -> v.s = optionValue
    [] OTHER -> FALSE

BoolText(b) == IF b THEN "true" ELSE "false"

CategoricalData(key, v, options) ==
  [i \in 1..Len(options) |->
     Datum(key \o "_" \o sha1(options[i]), BoolText(Truthy(v) /\ Includes(v, options[i])))]

toFixed2Truncating(n) == n \div 10000

\* (n).toFixed(2) of a number of n millionths, n >= 0: the decimal of two
\* digits nearest to it, in hundredths.
toFixed2(n) == (n + 5000) \div 10000

\* The X and Y data of a layout value.  With useScreenLayoutCoordinates the
\* numbers are x * width and (1.0 - y) * height, printed by toFixed(2).
LayoutData(key, v, exportOptions) ==
  IF v.t /= "object"
  THEN IF exportOptions.useScreenLayoutCoordinates
       THEN <<Datum(key \o "_X", "NaN"), Datum(key \o "_Y", "NaN")>>
       ELSE <<Datum(key \o "_X", UNDEF), Datum(key \o "_Y", UNDEF)>>
  ELSE IF exportOptions.useScreenLayoutCoordinates
  THEN <<NumDatum(key \o "_X", "toFixed(2)",
                  toFixed2(v.x * exportOptions.screenLayoutWidth)),
         NumDatum(key \o "_Y", "toFixed(2)",
                  toFixed2((1000000 - v.y) * exportOptions.screenLayoutHeight))>>
  ELSE <<NumDatum(key \o "_X", "number", v.x), NumDatum(key \o "_Y", "number", v.y)>>

\* The branches taken for one attribute once keyName is settled.
AttributeData(codebook, type, entity, key, keyName, v, excludeList, exportOptions) ==
  LET keyType == getAttributePropertyFromCodebook(codebook, type, entity, key, "type")
  IN IF ~(~InSeq(keyName, excludeList) /\ Truthy(v)) THEN <<>>
     ELSE IF keyType = "categorical"
     THEN CategoricalData(key, v, getOptionsFromCodebook(codebook, type, entity, key))
     ELSE IF Defined(keyType) /\ ~IsObject(v) THEN <<Datum(key, Text(v))>>
     ELSE IF keyType = "layout" THEN LayoutData(key, v, exportOptions)
     ELSE <<Datum(keyName, Text(v))>>

(***************************************************************************)
(* generateEgoDataElements.  keyName is a const: the assignment            *)
(* keyName = sha1(key), made when the codebook gives no name, throws.      *)
(* Returns [ok, data]; ok is FALSE when the call throws.                   *)
(***************************************************************************)
RECURSIVE EgoAttrLoop(_, _, _, _, _, _)
EgoAttrLoop(acc, keys, ego, excludeList, codebook, exportOptions) ==
  IF keys = <<>> \/ ~acc.ok THEN acc
  ELSE LET key == Head(keys)
           keyName == getAttributePropertyFromCodebook(codebook, "ego", ego, key, "name")
       IN IF ~Defined(keyName) THEN [acc EXCEPT !.ok = FALSE]
          ELSE EgoAttrLoop(
                 [acc EXCEPT !.data = @ \o AttributeData(codebook, "ego", ego, key, keyName,
                                 AttrValue(getEntityAttributes(ego), key),
                                 excludeList, exportOptions)],
                 Tail(keys), ego, excludeList, codebook, exportOptions)

generateEgoDataElements(ego, excludeList, codebook, exportOptions) ==
  EgoAttrLoop([ok |-> TRUE, data |-> <<Datum(ncUUIDProperty, ego.uid)>>],
              AttrKeysOf(getEntityAttributes(ego)), ego, excludeList, codebook,
              exportOptions)

(***************************************************************************)
(* generateDataElements.  An element is [tag, id, source, target, data].   *)
(* Returns [ok, elems, warnings]; ok is FALSE when the call throws,         *)
(* warnings counts its calls of console.warn.                              *)
(***************************************************************************)
\* The id uuid() returns.
FreshUUID == "uuid()"

\* Names n with n.toLowerCase() === 'name'.
NamesCI == {"name", "Name", "NAME"}

\* findKey(variables, variable => variable.name.toLowerCase() === 'name'):
\* "throw" when a variable without a name is met before a match.
RECURSIVE FindNameVariable(_)
FindNameVariable(variables) ==
  IF variables = <<>> THEN UNDEF
  ELSE IF Head(variables).name = UNDEF THEN "throw"
  ELSE IF Head(variables).name \in NamesCI THEN Head(variables).k
  ELSE FindNameVariable(Tail(variables))

entityLabel(codebook, type, entity) ==
  LET variableCalledName == FindNameVariable(codebook[type][entity.type].variables)
  IN IF variableCalledName = "throw" THEN "throw"
     ELSE IF variableCalledName /= UNDEF
             /\ Truthy(AttrValue(entity.attrs, variableCalledName))
     THEN Text(AttrValue(entity.attrs, variableCalledName))
     ELSE "Node"

RECURSIVE DataAttrLoop(_, _, _, _, _, _, _)
DataAttrLoop(data, keys, entity, type, excludeList, codebook, exportOptions) ==
  IF keys = <<>> THEN data
  ELSE LET key == Head(keys)
           name == getAttributePropertyFromCodebook(codebook, type, entity, key, "name")
           keyName == IF Defined(name) THEN name ELSE sha1(key)
       IN DataAttrLoop(
            data \o AttributeData(codebook, type, entity, key, keyName,
                                  AttrValue(getEntityAttributes(entity), key),
                                  excludeList, exportOptions),
            Tail(keys), entity, type, excludeList, codebook, exportOptions)

ElementThrowsWithoutKey(codebook, type, entity) ==
  \/ ~Defined(entity.uid)
  \/ entity.type \notin DOMAIN codebook[type]
  \/ type /= "edge" /\ entityLabel(codebook, type, entity) = "throw"

\* Whether building the element of this entity throws.
ElementThrows(codebook, type, entity) ==
  \/ entity.type \notin DOMAIN codebook[type]
  \/ type /= "edge" /\ entityLabel(codebook, type, entity) = "throw"

ElementOf(entity, type, excludeList, codebook, exportOptions) ==
  LET def == codebook[type][entity.type]
      entityTypeName == IF Defined(def.name) THEN def.name ELSE entity.type
      head == <<Datum(ncUUIDProperty, entity.uid), Datum(ncTypeProperty, entityTypeName)>>
              \o (IF type = "edge"
                  THEN <<Datum(ncSourceUUID, entity.srcUUID),
                         Datum(ncTargetUUID, entity.tgtUUID)>>
                  ELSE <<Datum("label", entityLabel(codebook, type, entity))>>)
  IN [tag |-> type,
      id |-> IF Defined(entity.uid) THEN entity.exportID ELSE FreshUUID,
      source |-> IF type = "edge" THEN entity.from ELSE NoID,
      target |-> IF type = "edge" THEN entity.to ELSE NoID,
      data |-> DataAttrLoop(head, AttrKeysOf(getEntityAttributes(entity)), entity, type,
                            excludeList, codebook, exportOptions)]

\* The loop over entities[lo..hi], until an element throws: over the first
\* half, then over the second.
RECURSIVE DataEntityLoop(_, _, _, _, _, _, _, _)
DataEntityLoop(acc, lo, hi, entities, type, excludeList, codebook, exportOptions) ==
  IF lo > hi \/ ~acc.ok THEN acc
  ELSE IF lo = hi
  THEN IF ElementThrows(codebook, type, entities[lo])
       THEN [acc EXCEPT !.ok = FALSE,
                        !.warnings = IF Defined(entities[lo].uid) THEN @ ELSE @ + 1]
       ELSE [acc EXCEPT !.elems = Append(@, ElementOf(entities[lo], type, excludeList,
                                                      codebook, exportOptions)),
                        !.warnings = IF Defined(entities[lo].uid) THEN @ ELSE @ + 1]
  ELSE DataEntityLoop(
         DataEntityLoop(acc, lo, (lo + hi) \div 2, entities, type, excludeList, codebook,
                        exportOptions),
         (lo + hi) \div 2 + 1, hi, entities, type, excludeList, codebook, exportOptions)

generateDataElements(entities, type, excludeList, codebook, exportOptions) ==
  DataEntityLoop([ok |-> TRUE, elems |-> <<>>, warnings |-> 0], 1, Len(entities), entities, type,
                 excludeList, codebook,
                 exportOptions)

(***************************************************************************)
(* Networks.  nodes and edges are collections: an array of entities, or,   *)
(* after lodash groupBy, an object of arrays keyed by session id.  With    *)
(* unifyNetworks, ego and sessionVariables are objects keyed by session    *)
(* id (their [sid, ...] entries in key order); without, ego is one entity  *)
(* and sessionVariables one record.                                        *)
(***************************************************************************)
ArrayOf(items) == [tag |-> "array", items |-> items, groups |-> <<>>]
ObjectOf(groups) == [tag |-> "object", items |-> <<>>, groups |-> groups]

NoEntity == Entity(UNDEF, UNDEF, <<>>)
SessionVars(sid) == [sid |-> sid, caseId |-> "case-" \o sid]
NoVars == SessionVars(UNDEF)

\* One item goes to the group of its session, a new last group if it is the
\* first of its session.
GroupItem(groups, e) ==
  IF \E j \in 1..Len(groups) : groups[j].sid = e.sid
  THEN [j \in 1..Len(groups) |->
          IF groups[j].sid = e.sid THEN [groups[j] EXCEPT !.items = Append(@, e)]
          ELSE groups[j]]
  ELSE Append(groups, [sid |-> e.sid, items |-> <<e>>])

\* Grouping items[lo..hi]: the first half to its end (the test on first has
\* it computed there), then the second half.
RECURSIVE GroupItems(_, _, _, _)
GroupItems(items, groups, lo, hi) ==
  IF lo > hi THEN groups
  ELSE IF lo = hi THEN GroupItem(groups, items[lo])
  ELSE LET first == GroupItems(items, groups, lo, (lo + hi) \div 2)
       IN IF first = <<>>
          THEN GroupItems(items, <<>>, (lo + hi) \div 2 + 1, hi)
          ELSE GroupItems(items, first, (lo + hi) \div 2 + 1, hi)

\* groupBy(collection, sessionProperty).  Grouping an object of arrays puts
\* its arrays (none of which has the session property) under "undefined";
\* that group never holds entities.
groupBy(coll) ==
  IF coll.tag = "array" THEN ObjectOf(GroupItems(coll.items, <<>>, 1, Len(coll.items)))
  ELSE IF coll.groups = <<>> THEN ObjectOf(<<>>)
  ELSE ObjectOf(<<[sid |-> UNDEF, items |-> <<>>]>>)

\* collection[sessionID]
HasGroup(coll, sid) ==
  coll.tag = "object" /\ \E j \in 1..Len(coll.groups) : coll.groups[j].sid = sid

\* A wrong lookup: the first group whatever the session.
GroupOfFirst(coll, sid) == coll.groups[1].items

GroupOf(coll, sid) ==
  coll.groups[CHOOSE j \in 1..Len(coll.groups) : coll.groups[j].sid = sid].items

HasEntry(obj, sid) == \E j \in 1..Len(obj) : obj[j].sid = sid
EntryOf(obj, sid) == obj[CHOOSE j \in 1..Len(obj) : obj[j].sid = sid]

\* { ...a, ...b } on attributes objects.
RECURSIVE MergeAttrs(_, _)
MergeAttrs(a, b) ==
  IF b = <<>> THEN a
  ELSE LET e == Head(b)
       IN IF HasAttr(a, e.k)
          THEN MergeAttrs([i \in 1..Len(a) |-> IF a[i].k = e.k THEN e ELSE a[i]], Tail(b))
          ELSE MergeAttrs(Append(a, e), Tail(b))

\* The reduce over Object.values(network.ego).
RECURSIVE UnionAttrs(_, _)
UnionAttrs(egos, union) ==
  IF egos = <<>> THEN union
  ELSE UnionAttrs(Tail(egos), MergeAttrs(union, Head(egos).ego.attrs))

combinedEgosLast(egoMap) ==
  IF egoMap = <<>> THEN Entity(UNDEF, UNDEF, <<>>)
  ELSE Entity(UNDEF, UNDEF, egoMap[Len(egoMap)].ego.attrs)

combinedEgos(egoMap) == Entity(UNDEF, UNDEF, UnionAttrs(egoMap, <<>>))

(***************************************************************************)
(* processEntityVariables: the entity with its attributes renamed and      *)
(* flattened.  The new attributes are [k, v, n] entries: n holds the       *)
(* number of a layout coordinate as in a <data>, v being then the string   *)
(* "toFixed(2)" or the number "number".                                    *)
(***************************************************************************)
processEntityVariables(entity, entityType, codebook, exportOptions) ==
  LET Put(acc, k, v, n) == MergeAttrs(acc, <<[k |-> k, v |-> v, n |-> n]>>)
      RECURSIVE Options(_, _, _, _)
      Options(acc, attributeName, attributeData, options) ==
        IF options = <<>> THEN acc
        ELSE Options(Put(acc, attributeName \o "_" \o Head(options),
                         Val("boolean", BoolText(Truthy(attributeData)
                                                 /\ Includes(attributeData, Head(options)))),
                         0),
                     attributeName, attributeData, Tail(options))
      Coord(attributeData, screen, raw) ==
        IF Truthy(attributeData) /\ exportOptions.useScreenLayoutCoordinates
        THEN IF attributeData.t = "object"
             THEN [v |-> Val("string", "toFixed(2)"), n |-> toFixed2(screen)]
             ELSE [v |-> Val("string", "NaN"), n |-> 0]
        ELSE IF attributeData.t = "object"
             THEN [v |-> Val("double", "number"), n |-> raw]
             ELSE [v |-> Nil, n |-> 0]
      RECURSIVE Attributes(_, _)
      Attributes(acc, keys) ==
        IF keys = <<>> THEN acc
        ELSE
          LET attributeUUID == Head(keys)
              attributeName == getAttributePropertyFromCodebook(
                                 codebook, entityType, entity, attributeUUID, "name")
              attributeType == getAttributePropertyFromCodebook(
                                 codebook, entityType, entity, attributeUUID, "type")
              attributeData == AttrValue(getEntityAttributes(entity), attributeUUID)
              xCoord == Coord(attributeData,
                              attributeData.x * exportOptions.screenLayoutWidth,
                              attributeData.x)
              yCoord == Coord(attributeData,
                              (1000000 - attributeData.y) * exportOptions.screenLayoutHeight,
                              attributeData.y)
          IN Attributes(
               IF attributeType = "categorical"
               THEN Options(acc, attributeName, attributeData,
                            getOptionsFromCodebook(codebook, entityType, entity,
                                                   attributeUUID))
               ELSE IF attributeType = "layout"
               THEN Put(Put(acc, attributeName \o "_x", xCoord.v, xCoord.n),
                        attributeName \o "_y", yCoord.v, yCoord.n)
               ELSE IF Defined(attributeName)
               THEN Put(acc, attributeName, attributeData, 0)
               ELSE Put(acc, attributeUUID, attributeData, 0),
               Tail(keys))
  IN [entity EXCEPT !.attrs = Attributes(<<>>, AttrKeysOf(getEntityAttributes(entity)))]

(***************************************************************************)
(* insertNetworkEgo: { [egoProperty]: session.ego[entityPrimaryKeyProperty], *)
(* ...node }.  The spread comes last: an entity that has the property       *)
(* keeps its own.                                                          *)
(***************************************************************************)
insertNetworkEgo(session) ==
  LET WithEgo(entity) ==
        [entity EXCEPT !.ego = IF entity.ego /= UNDEF THEN entity.ego ELSE session.ego.uid]
  IN [session EXCEPT !.nodes = [i \in 1..Len(session.nodes) |-> WithEgo(session.nodes[i])],
                     !.edges = [j \in 1..Len(session.edges) |-> WithEgo(session.edges[j])]]

insertEgoIntoSessionNetworks(sessions) ==
  [s \in 1..Len(sessions) |-> insertNetworkEgo(sessions[s])]

(***************************************************************************)
(* partitionNetworkByType.  Returns [ok, parts]; ok is FALSE when the call *)
(* throws.  A part is a session with the property partitionEntity (UNDEF   *)
(* on the session itself, which has no such property).                     *)
(***************************************************************************)
Part(session, kind, entities, partitionEntity) ==
  [nodes |-> IF kind = "node" THEN entities ELSE session.nodes,
   edges |-> IF kind = "edge" THEN entities ELSE session.edges,
   ego |-> session.ego, sessionVariables |-> session.sessionVariables,
   partitionEntity |-> partitionEntity]

Same(session) == Part(session, "none", <<>>, UNDEF)

PartitionInOne(codebook, session, kind) ==
  LET entities == IF kind = "node" THEN session.nodes ELSE session.edges
  IN [ok |-> TRUE,
      parts |-> <<Part(session, kind, entities, codebook[kind][entities[1].type].name)>>]

\* The reduce into the map of entities by type (its [type, items] entries
\* in the order the types come up), then the map over Object.entries;
\* getEntityName throws for a type that the codebook does not hold.
PartitionBy(codebook, session, kind) ==
  LET entities == IF kind = "node" THEN session.nodes ELSE session.edges
      RECURSIVE Reduce(_, _)
      Reduce(map, rest) ==
        IF rest = <<>> THEN map
        ELSE Reduce(IF \E j \in 1..Len(map) : map[j].type = Head(rest).type
                    THEN [j \in 1..Len(map) |->
                            IF map[j].type = Head(rest).type
                            THEN [map[j] EXCEPT !.items = Append(@, Head(rest))]
                            ELSE map[j]]
                    ELSE Append(map, [type |-> Head(rest).type, items |-> <<Head(rest)>>]),
                    Tail(rest))
      map == Reduce(<<>>, entities)
  IN IF \E j \in 1..Len(map) : map[j].type \notin DOMAIN codebook[kind]
     THEN [ok |-> FALSE, parts |-> <<>>]
     ELSE [ok |-> TRUE,
           parts |-> [j \in 1..Len(map) |->
                        Part(session, kind, map[j].items, codebook[kind][map[j].type].name)]]

partitionNetworkByTypeOfEmpty(codebook, session, format) ==
  CASE format \in {"graphml", "ego"} -> [ok |-> TRUE, parts |-> <<Same(session)>>]
    [] format = "attributeList" -> PartitionBy(codebook, session, "node")
    [] format \in {"edgeList", "adjacencyMatrix"} -> PartitionBy(codebook, session, "edge")
    [] OTHER -> [ok |-> FALSE, parts |-> <<>>]

partitionNetworkByTypeLenient(codebook, session, format) ==
  CASE format = "attributeList" /\ session.nodes /= <<>> ->
         PartitionBy(codebook, session, "node")
    [] format \in {"edgeList", "adjacencyMatrix"} /\ session.edges /= <<>> ->
         PartitionBy(codebook, session, "edge")
    [] OTHER -> [ok |-> TRUE, parts |-> <<Same(session)>>]

partitionNetworkByType(codebook, session, format) ==
  CASE format \in {"graphml", "ego"} -> [ok |-> TRUE, parts |-> <<Same(session)>>]
    [] format = "attributeList" ->
         IF session.nodes = <<>> THEN [ok |-> TRUE, parts |-> <<Same(session)>>]
         ELSE PartitionBy(codebook, session, "node")
    [] format \in {"edgeList", "adjacencyMatrix"} ->
         IF session.edges = <<>> THEN [ok |-> TRUE, parts |-> <<Same(session)>>]
         ELSE PartitionBy(codebook, session, "edge")
    [] OTHER -> [ok |-> FALSE, parts |-> <<>>]

(***************************************************************************)
(* Fragments: what one yield hands to the consumer.                        *)
(***************************************************************************)
Frag(kind) ==
  [kind |-> kind, for |-> UNDEF, keys |-> <<>>, data |-> <<>>, elems |-> <<>>,
   hdr |-> NoVars, directed |-> FALSE]

KeysFrag(for, keys) == [Frag("keys") EXCEPT !.for = for, !.keys = keys]
getGraphHeader(exportOptions, sessionVariables) ==
  [Frag("graphHeader") EXCEPT !.hdr = sessionVariables,
                              !.directed = exportOptions.useDirectedEdges]
EgoFrag(data) == [Frag("egoData") EXCEPT !.data = data]
ElemsFrag(kind, elems) == [Frag(kind) EXCEPT !.elems = elems]

\* The batch size of the node and edge loops.
ChunkSize == 100

\* A slice one element too long.
SliceOneMore(items, i) ==
  SubSeq(items, i + 1,
         IF i + ChunkSize + 1 < Len(items) THEN i + ChunkSize + 1 ELSE Len(items))

\* array.slice(i, i + ChunkSize)
Slice(items, i) ==
  SubSeq(items, i + 1, IF i + ChunkSize < Len(items) THEN i + ChunkSize ELSE Len(items))

(***************************************************************************)
(* graphMLGenerator.  A generator's own state is st == [net, pc, i, sid,   *)
(* sessionIDs, out]: the network it was given (a reference into the        *)
(* heap), the statement it is suspended before (named by its line), the    *)
(* loop index, the session of the for-in loop and the session ids still    *)
(* to visit, and the fragments yielded so far.  Resume runs one pull: from *)
(* pc to the next yield, to the end, or to an exception.  It returns       *)
(* [kind, st, nw], nw being the network as the pull leaves it.             *)
(***************************************************************************)
NewGenerator(net) ==
  [net |-> net, pc |-> "L495", i |-> 0, sid |-> UNDEF, sessionIDs |-> <<>>, out |-> <<>>]

\* What a pull runs into: the statement the generator stops at (a yield, the
\* end, or a statement that throws), found by running the statements that
\* yield nothing.  [op, st, nw, pc, type, entities, vars]: op names the
\* statement, pc where the generator resumes after it, the rest its operands.
Stop(op, st, nw, pc) ==
  [op |-> op, st |-> st, nw |-> nw, pc |-> pc, type |-> UNDEF, entities |-> <<>>,
   vars |-> NoVars]
StopKeys(st, nw, pc, type, entities) ==
  [Stop("keys", st, nw, pc) EXCEPT !.type = type, !.entities = entities]
StopHeader(st, nw, pc, sessionVariables) ==
  [Stop("graphHeader", st, nw, pc) EXCEPT !.vars = sessionVariables]
StopEgo(st, nw, pc, ego) == [Stop("egoData", st, nw, pc) EXCEPT !.entities = <<ego>>]
StopElements(op, st, nw, pc, type, entities) ==
  [Stop(op, st, nw, pc) EXCEPT !.type = type, !.entities = entities]

\* The document is never closed: nothing follows the yield of the graph
\* footer at line 616.
AfterWithoutXmlFooter(pc) ==
  CASE pc = "L495" -> "L549"
    [] pc = "L549" -> "L559"
    [] pc = "L559" -> "L562"
    [] pc = "L562" -> "L564"
    [] pc = "L569" -> "L573"
    [] pc = "L573" -> "L578"
    [] pc = "L579" -> "L579"
    [] pc = "L585" -> "L585"
    [] pc = "L590" -> "L569"
    [] pc = "L596" -> "L599"
    [] pc = "L599" -> "L604"
    [] pc = "L605" -> "L605"
    [] pc = "L611" -> "L611"
    [] pc = "L616" -> "L620"
    [] pc = "L619" -> "L620"
    [] OTHER -> "done"

\* The statement that follows each yield: where the generator resumes.  A
\* yield in a loop is followed by the test of its loop.
After(pc) ==
  CASE pc = "L495" -> "L549"
    [] pc = "L549" -> "L559"
    [] pc = "L559" -> "L562"
    [] pc = "L562" -> "L564"
    [] pc = "L569" -> "L573"
    [] pc = "L573" -> "L578"
    [] pc = "L579" -> "L579"
    [] pc = "L585" -> "L585"
    [] pc = "L590" -> "L569"
    [] pc = "L596" -> "L599"
    [] pc = "L599" -> "L604"
    [] pc = "L605" -> "L605"
    [] pc = "L611" -> "L611"
    [] pc = "L616" -> "L619"
    [] pc = "L619" -> "L620"
    [] OTHER -> "done"

RECURSIVE Locate(_, _, _)
Locate(st, nw, unify) ==
  CASE st.pc = "L495" -> Stop("xmlHeader", st, nw, After(st.pc))
    [] st.pc = "L549" ->
         StopKeys(st, nw, After(st.pc), "ego",
                  <<IF unify THEN combinedEgos(nw.ego) ELSE nw.ego>>)
    [] st.pc = "L559" ->
         \* entities.forEach exists on arrays only
         IF nw.nodes.tag /= "array" THEN Stop("throw", st, nw, "failed")
         ELSE StopKeys(st, nw, After(st.pc), "node", nw.nodes.items)
    [] st.pc = "L562" ->
         IF nw.edges.tag /= "array" THEN Stop("throw", st, nw, "failed")
         ELSE StopKeys(st, nw, After(st.pc), "edge", nw.edges.items)
    [] st.pc = "L564" ->
         IF unify
         THEN Locate([st EXCEPT !.pc = "L569",
                                !.sessionIDs = [j \in 1..Len(nw.sessionVariables) |->
                                                  nw.sessionVariables[j].sid]],
                     [nw EXCEPT !.nodes = groupBy(@), !.edges = groupBy(@)], unify)
         ELSE Locate([st EXCEPT !.pc = "L596"], nw, unify)
    \* the unified branch: for (let sessionID in network.sessionVariables)
    [] st.pc = "L569" ->
         IF st.sessionIDs = <<>> THEN Locate([st EXCEPT !.pc = "L619"], nw, unify)
         ELSE LET sid == Head(st.sessionIDs)
              IN StopHeader([st EXCEPT !.sid = sid, !.sessionIDs = Tail(@)], nw, After(st.pc),
                            IF HasEntry(nw.sessionVariables, sid)
                            THEN EntryOf(nw.sessionVariables, sid).vars ELSE NoVars)
    [] st.pc = "L573" ->
         IF HasEntry(nw.ego, st.sid)
         THEN StopEgo(st, nw, After(st.pc), EntryOf(nw.ego, st.sid).ego)
         ELSE Locate([st EXCEPT !.pc = "L578"], nw, unify)
    [] st.pc = "L578" ->
         IF HasGroup(nw.nodes, st.sid)
         THEN Locate([st EXCEPT !.pc = "L579", !.i = 0], nw, unify)
         ELSE Locate([st EXCEPT !.pc = "L584"], nw, unify)
    [] st.pc = "L579" ->
         \* i < network.nodes[sessionID].length
         IF ~HasGroup(nw.nodes, st.sid) THEN Stop("throw", st, nw, "failed")
         ELSE IF st.i < Len(GroupOf(nw.nodes, st.sid))
         THEN StopElements("nodes", st, nw, After(st.pc), "node",
                           Slice(GroupOf(nw.nodes, st.sid), st.i))
         ELSE Locate([st EXCEPT !.pc = "L584"], nw, unify)
    [] st.pc = "L584" ->
         IF HasGroup(nw.edges, st.sid)
         THEN Locate([st EXCEPT !.pc = "L585", !.i = 0], nw, unify)
         ELSE Locate([st EXCEPT !.pc = "L590"], nw, unify)
    [] st.pc = "L585" ->
         IF ~HasGroup(nw.edges, st.sid) THEN Stop("throw", st, nw, "failed")
         ELSE IF st.i < Len(GroupOf(nw.edges, st.sid))
         THEN StopElements("edges", st, nw, After(st.pc), "edge",
                           Slice(GroupOf(nw.edges, st.sid), st.i))
         ELSE Locate([st EXCEPT !.pc = "L590"], nw, unify)
    [] st.pc = "L590" -> Stop("graphFooter", st, nw, After(st.pc))
    \* the branch without unification
    [] st.pc = "L596" -> StopHeader(st, nw, After(st.pc), nw.sessionVariables)
    [] st.pc = "L599" ->
         IF nw.ego /= NoEntity THEN StopEgo(st, nw, After(st.pc), nw.ego)
         ELSE Locate([st EXCEPT !.pc = "L604"], nw, unify)
    [] st.pc = "L604" -> Locate([st EXCEPT !.pc = "L605", !.i = 0], nw, unify)
    [] st.pc = "L605" ->
         IF nw.nodes.tag = "array" /\ st.i < Len(nw.nodes.items)
         THEN StopElements("nodes", st, nw, After(st.pc), "node", Slice(nw.nodes.items, st.i))
         ELSE Locate([st EXCEPT !.pc = "L610"], nw, unify)
    [] st.pc = "L610" -> Locate([st EXCEPT !.pc = "L611", !.i = 0], nw, unify)
    [] st.pc = "L611" ->
         IF nw.edges.tag = "array" /\ st.i < Len(nw.edges.items)
         THEN StopElements("edges", st, nw, After(st.pc), "edge", Slice(nw.edges.items, st.i))
         ELSE Locate([st EXCEPT !.pc = "L616"], nw, unify)
    [] st.pc = "L616" -> Stop("graphFooter", st, nw, After(st.pc))
    [] st.pc = "L619" -> Stop("xmlFooter", st, nw, After(st.pc))
    [] OTHER -> Stop("return", st, nw, "done")

\* The fragment the statement yields: [ok, frag], ok FALSE when it throws.
Evaluate(stop, codebook, exportOptions) ==
  CASE stop.op = "keys" ->
         [ok |-> TRUE,
          frag |-> KeysFrag(stop.type,
                     generateKeyElements(stop.entities, stop.type, <<>>, codebook))]
    [] stop.op = "graphHeader" ->
         [ok |-> TRUE, frag |-> getGraphHeader(exportOptions, stop.vars)]
    [] stop.op = "egoData" ->
         LET r == generateEgoDataElements(stop.entities[1], <<>>, codebook, exportOptions)
         IN [ok |-> r.ok, frag |-> EgoFrag(r.data)]
    [] stop.op \in {"nodes", "edges"} ->
         LET r == generateDataElements(stop.entities, stop.type, <<>>, codebook,
                                       exportOptions)
         IN [ok |-> r.ok, frag |-> ElemsFrag(stop.op, r.elems)]
    [] OTHER -> [ok |-> stop.op \notin {"throw"}, frag |-> Frag(stop.op)]

\* What the pull leaves: [kind, st, nw].  kind is the kind of the fragment
\* yielded, "return" at the end of the generator, "throw" on an exception.
Outcome(stop, r) ==
  IF stop.op = "return"
  THEN [kind |-> "return", st |-> [stop.st EXCEPT !.pc = "done"], nw |-> stop.nw]
  ELSE IF ~r.ok
  THEN [kind |-> "throw", st |-> [stop.st EXCEPT !.pc = "failed"], nw |-> stop.nw]
  ELSE [kind |-> stop.op,
        st |-> [stop.st EXCEPT !.pc = stop.pc,
                               !.i = IF stop.op \in {"nodes", "edges"}
                                     THEN @ + ChunkSize ELSE @,
                               !.out = Append(@, r.frag)],
        nw |-> stop.nw]

Perform(stop, codebook, exportOptions) ==
  Outcome(stop, Evaluate(stop, codebook, exportOptions))

\* One pull.
Resume(st, nw, codebook, exportOptions) ==
  Perform(Locate(st, nw, exportOptions.unifyNetworks), codebook, exportOptions)

Finished(st) == st.pc \in {"done", "failed"}

(***************************************************************************)
(* The inputs of an export: bounded networks, codebooks and options.       *)
(***************************************************************************)
MaxNodes == 2
MaxEdges == 1
MaxSessions == 2
MaxChunks == 2

\* The variables object of an entity definition: empty, or one definition
\* of the attribute key "a".
VarChoices ==
  { <<>>,
    <<VarDef("a", "alpha", "text", <<>>)>>,
    <<VarDef("a", UNDEF, "text", <<>>)>>,
    <<VarDef("a", "alpha", UNDEF, <<>>)>>,
    <<VarDef("a", "alpha", "layout", <<>>)>>,
    <<VarDef("a", "alpha", "categorical", <<"A", "B">>)>>,
    <<VarDef("a", "alpha", "categorical", <<"A", "A">>)>>,
    <<VarDef("a", "Name", "number", <<>>)>> }

FewVarChoices ==
  { <<>>,
    <<VarDef("a", "alpha", "text", <<>>)>>,
    <<VarDef("a", "alpha", "categorical", <<"A", "A">>)>> }

ValChoices == { Val("string", "x"), Val("int", "0"), LayoutVal(250000, 750000), ArrayVal(<<"A">>) }
FewValChoices == { Val("string", "x"), ArrayVal(<<"A">>) }

MakeCodebook(d1, d2) ==
  [node |-> [person |-> [name |-> "Person", variables |-> d1],
             place |-> [name |-> UNDEF, variables |-> d2]],
   edge |-> [friend |-> [name |-> "Friend", variables |-> d2],
             knows |-> [name |-> "Knows", variables |-> d2]],
   ego |-> [name |-> UNDEF, variables |-> d1]]

MakeOptions(unify) ==
  [useDirectedEdges |-> TRUE, useScreenLayoutCoordinates |-> TRUE,
   screenLayoutWidth |-> 800, screenLayoutHeight |-> 600, unifyNetworks |-> unify]

Attrs(v) == <<[k |-> "a", v |-> v]>>

SessionName(k) == "s" \o ToString(k)
\* The session of the i-th entity: the sessions take the entities in turn.
SessionOf(i, nSessions) == SessionName(((i - 1) % (IF nSessions = 0 THEN 1 ELSE nSessions)) + 1)

MakeNode(i, v1, v2, nSessions) ==
  [Entity("n" \o ToString(i), IF i % 2 = 1 THEN "person" ELSE "place",
          IF i % 2 = 1 THEN Attrs(v1) ELSE Attrs(v2))
     EXCEPT !.sid = SessionOf(i, nSessions), !.exportID = i]

\* The j-th edge joins the first and the last node of its session.
EdgeSource(j, nSessions) == ((j - 1) % (IF nSessions = 0 THEN 1 ELSE nSessions)) + 1
EdgeTarget(j, nNodes, nSessions) ==
  nNodes - ((nNodes - EdgeSource(j, nSessions)) % (IF nSessions = 0 THEN 1 ELSE nSessions))

MakeEdge(j, v2, nNodes, nSessions) ==
  [Entity("e" \o ToString(j), "friend", Attrs(v2))
     EXCEPT !.sid = SessionOf(j, nSessions), !.exportID = nNodes + j,
            !.from = EdgeSource(j, nSessions),
            !.to = EdgeTarget(j, nNodes, nSessions),
            !.srcUUID = "n" \o ToString(EdgeSource(j, nSessions)),
            !.tgtUUID = "n" \o ToString(EdgeTarget(j, nNodes, nSessions))]

\* Entities belong to sessions of the export, and edges join nodes of their
\* own session.
WellFormed(nNodes, nEdges, nSessions) ==
  /\ nSessions = 0 => nNodes = 0 /\ nEdges = 0
  /\ \A j \in 1..nEdges : EdgeSource(j, nSessions) <= nNodes

MakeEgo(sid, attrs) == [Entity("ego-" \o sid, UNDEF, attrs) EXCEPT !.sid = sid]

MakeNetwork(unify, egoAttrs, v1, v2, nNodes, nEdges, nSessions) ==
  [nodes |-> ArrayOf([i \in 1..nNodes |-> MakeNode(i, v1, v2, nSessions)]),
   edges |-> ArrayOf([j \in 1..nEdges |-> MakeEdge(j, v2, nNodes, nSessions)]),
   ego |-> IF unify
           THEN [k \in 1..nSessions |->
                   [sid |-> SessionName(k), ego |-> MakeEgo(SessionName(k), egoAttrs)]]
           ELSE MakeEgo("s1", egoAttrs),
   sessionVariables |->
     IF unify
     THEN [k \in 1..nSessions |->
             [sid |-> SessionName(k), vars |-> SessionVars(SessionName(k))]]
     ELSE SessionVars("s1")]

(***************************************************************************)
(* resequenceIds.  A run is r == [sessions, s, phase, k, resequencedId,    *)
(* IDLookupMap, result, pc]: the sessions it was given, the entity the     *)
(* maps stand before (session s, its nodes or its edges, index k), the     *)
(* counter, the lookup object (its [k, id] entries) and the sessions       *)
(* built so far.  In a session as it comes in, an edge's from and to hold  *)
(* the primary keys of its nodes.                                          *)
(***************************************************************************)
\* IDLookupMap[key]
Lookup(map, key) ==
  IF \E i \in 1..Len(map) : map[i].k = key
  THEN map[CHOOSE i \in 1..Len(map) : map[i].k = key].id
  ELSE NoID

\* IDLookupMap[key] = id
Store(map, key, id) ==
  IF \E i \in 1..Len(map) : map[i].k = key
  THEN [i \in 1..Len(map) |-> IF map[i].k = key THEN [k |-> key, id |-> id] ELSE map[i]]
  ELSE Append(map, [k |-> key, id |-> id])

\* { [exportIDProperty]: resequencedId, ...node }: a field of the node with
\* the name of exportIDProperty is spread over the new one.
ResequencedNode(node, resequencedId) ==
  [node EXCEPT !.exportID = IF node.exportID /= NoID THEN node.exportID ELSE resequencedId]

\* { ...edge, [ncSourceUUID]: ..., [ncTargetUUID]: ..., [exportIDProperty]:
\* resequencedId, from: ..., to: ... }
ResequencedEdge(edge, resequencedId, map) ==
  [edge EXCEPT !.srcUUID = edge.from, !.tgtUUID = edge.to,
               !.exportID = resequencedId,
               !.from = Lookup(map, edge.from), !.to = Lookup(map, edge.to)]

\* The next entity the maps come to, from session s, phase and index k on.
RECURSIVE Seek(_, _, _, _)
Seek(sessions, s, phase, k) ==
  IF s > Len(sessions) THEN [s |-> s, phase |-> "end", k |-> 0]
  ELSE IF phase = "nodes"
       THEN IF k <= Len(sessions[s].nodes) THEN [s |-> s, phase |-> phase, k |-> k]
            ELSE Seek(sessions, s, "edges", 1)
       ELSE IF k <= Len(sessions[s].edges) THEN [s |-> s, phase |-> phase, k |-> k]
            ELSE Seek(sessions, s + 1, "nodes", 1)

NoRun ==
  [sessions |-> <<>>, s |-> 0, phase |-> "idle", k |-> 0, resequencedId |-> 0,
   IDLookupMap |-> <<>>, result |-> <<>>, pc |-> "idle"]

\* resequenceIds(sessions), before the first entity.
resequenceIds(sessions) ==
  LET at == Seek(sessions, 1, "nodes", 1)
  IN [sessions |-> sessions, s |-> at.s, phase |-> at.phase, k |-> at.k,
      resequencedId |-> 0, IDLookupMap |-> <<>>,
      result |-> [i \in 1..Len(sessions) |-> [nodes |-> <<>>, edges |-> <<>>]],
      pc |-> "running"]

\* The callback of session.nodes.map on one node.
MapNode(r) ==
  LET node == r.sessions[r.s].nodes[r.k]
      id == r.resequencedId + 1
      at == Seek(r.sessions, r.s, "nodes", r.k + 1)
  IN [r EXCEPT !.resequencedId = id,
               !.IDLookupMap = Store(@, node.uid, id),
               !.result[r.s].nodes = Append(@, ResequencedNode(node, id)),
               !.s = at.s, !.phase = at.phase, !.k = at.k]

\* The callback of session.edges.map on one edge.
MapEdge(r) ==
  LET edge == r.sessions[r.s].edges[r.k]
      id == r.resequencedId + 1
      map == Store(r.IDLookupMap, edge.uid, id)
      at == Seek(r.sessions, r.s, "edges", r.k + 1)
  IN [r EXCEPT !.resequencedId = id,
               !.IDLookupMap = map,
               !.result[r.s].edges = Append(@, ResequencedEdge(edge, id, map)),
               !.s = at.s, !.phase = at.phase, !.k = at.k]

\* Sessions to resequence.
MaxReseqSessions == 2
MaxReseqNodes == 2
MaxReseqEdges == 1

NodeUid(s, i) == "n" \o ToString(s) \o "." \o ToString(i)
EdgeUid(s, j) == "e" \o ToString(s) \o "." \o ToString(j)

\* A session of n nodes and the edges ends (their <<from, to>> primary
\* keys).  With carried, its entities carry the export IDs of an earlier
\* resequencing of this session alone.
MakeSession(s, n, ends, carried) ==
  [nodes |-> [i \in 1..n |->
                [Entity(NodeUid(s, i), "person", <<>>)
                   EXCEPT !.sid = SessionName(s),
                          !.exportID = IF carried THEN i ELSE NoID]],
   edges |-> [j \in 1..Len(ends) |->
                [Entity(EdgeUid(s, j), "friend", <<>>)
                   EXCEPT !.sid = SessionName(s),
                          !.exportID = IF carried THEN n + j ELSE NoID,
                          !.from = ends[j][1], !.to = ends[j][2]]]]

SeqsUpTo(S, n) == UNION {[1..m -> S] : m \in 0..n}

(***************************************************************************)
(* getGraphMLTypeForKey step by step.  A scan is [data, key, i, result,    *)
(* pc]: the entities, the key, the entity the reduce stands before and     *)
(* the running result.                                                     *)
(***************************************************************************)
NoScan == [data |-> <<>>, key |-> UNDEF, i |-> 0, result |-> "", pc |-> "idle"]

\* The reduce callback on the entity the scan stands before.
ScanStep(sc) ==
  [sc EXCEPT !.result = TypeStep(sc.result,
                                 AttrValue(getEntityAttributes(sc.data[sc.i]), sc.key)),
             !.i = sc.i + 1]

\* The collections scanned: up to MaxScan entities, each with one of these
\* attribute objects: a value under the key "a", null under it, or no key.
MaxScan == 3
ScanAttrs ==
  { Attrs(v) : v \in { Val("int", "1"), Val("int", "2"), Val("double", "2.5"),
                       Val("string", "two"), Val("string", "1"), Val("string", "2.5"),
                       Nil } }
  \cup {<<>>}

(***************************************************************************)
(* The inputs of the calls of single functions: sessions of a few nodes    *)
(* and edges that all hold one attribute a, defined by the codebook or     *)
(* not.                                                                    *)
(***************************************************************************)
MaxCallNodes == 3
MaxCallEdges == 2
MaxCallSessions == 2

\* The definition of a in the codebook with the value of a on the entities
\* and useScreenLayoutCoordinates.
AttrChoices ==
  { [def |-> <<VarDef("a", "alpha", "categorical", <<"A", "B", "C">>)>>,
     v |-> ArrayVal(<<"A", "C">>), screen |-> TRUE],
    [def |-> <<VarDef("a", "alpha", "categorical", <<"A", "B", "C">>)>>,
     v |-> ArrayVal(<<"B">>), screen |-> TRUE],
    [def |-> <<VarDef("a", "alpha", "text", <<>>)>>, v |-> Val("string", "x"),
     screen |-> TRUE],
    [def |-> <<>>, v |-> Val("string", "x"), screen |-> TRUE] }
  \cup
  { [def |-> <<VarDef("a", "alpha", "layout", <<>>)>>, v |-> v, screen |-> screen] :
      v \in {LayoutVal(250000, 750000), LayoutVal(123456, 654321)}, screen \in BOOLEAN }

\* The nodes of a session: of either subtype, and one kind that has no
\* primary key and holds the ego property of an earlier session.
NodeKinds ==
  { [type |-> "person", pk |-> TRUE, ego |-> UNDEF],
    [type |-> "place", pk |-> TRUE, ego |-> UNDEF],
    [type |-> "person", pk |-> FALSE, ego |-> "ego-old"] }

EdgeKinds == {"friend", "knows"}

CallSession(s, nodeKinds, edgeKinds, v) ==
  [nodes |-> [i \in 1..Len(nodeKinds) |->
                [Entity(IF nodeKinds[i].pk THEN NodeUid(s, i) ELSE UNDEF,
                        nodeKinds[i].type, Attrs(v))
                   EXCEPT !.exportID = i, !.ego = nodeKinds[i].ego]],
   edges |-> [j \in 1..Len(edgeKinds) |->
                [Entity(EdgeUid(s, j), edgeKinds[j], Attrs(v))
                   EXCEPT !.exportID = Len(nodeKinds) + j,
                          !.from = 1, !.to = Len(nodeKinds),
                          !.srcUUID = NodeUid(s, 1),
                          !.tgtUUID = NodeUid(s, Len(nodeKinds))]],
   ego |-> MakeEgo(SessionName(s), Attrs(v)),
   sessionVariables |-> SessionVars(SessionName(s))]

(***************************************************************************)
(* The state: the networks the callers hold (heap, and heap0 as they were  *)
(* when handed over), the codebook and the options, the generators, and    *)
(* the run of resequenceIds, the scan of getGraphMLTypeForKey, the call of  *)
(* a function of the pipeline with what it returned, and the Cordova file  *)
(* writer with the stream it is fed from.                                  *)
(***************************************************************************)
VARIABLES heap, heap0, codebook, exportOptions, gen, rs, scan, ret, fw

vars == <<heap, heap0, codebook, exportOptions, gen, rs, scan, ret, fw>>

\* No function of the pipeline called.
NoCall == [fn |-> "none", arg |-> "", ok |-> TRUE, value |-> <<>>, warnings |-> 0]

(***************************************************************************)
(* The Cordova writeStream and createWriteStream.  Bytes are numbered in   *)
(* the order the stream hands them over: chunks holds the length of every  *)
(* chunk of the stream and n how many of them were delivered.  readyState, *)
(* length and error are the fields of the FileWriter, pending the data of  *)
(* the write in flight, file what the writer has written, and overlap      *)
(* whether fileWriter.write was called during a write.  settled is the     *)
(* returned promise.                                                       *)
(***************************************************************************)
NoWriter ==
  [mode |-> "none", chunks |-> <<>>, n |-> 0, paused |-> FALSE, ended |-> FALSE,
   failed |-> FALSE, bufferedChunkBytes |-> <<>>, previousFileWriterLength |-> 0,
   reachedEndOfInputStream |-> FALSE, readyState |-> "INIT", length |-> 0,
   error |-> FALSE, pending |-> <<>>, file |-> <<>>, overlap |-> FALSE,
   settled |-> "pending"]

\* The bytes received with the first k chunks of the stream are 1..ReceivedBytes.
ReceivedBytes(chunks, k) ==
  LET RECURSIVE Sum(_)
      Sum(i) == IF i = 0 THEN 0 ELSE chunks[i] + Sum(i - 1)
  IN Sum(k)

\* bytes.slice(begin) of a Uint8Array, begin >= 0.
slice(bytes, begin) ==
  IF begin >= Len(bytes) THEN <<>> ELSE SubSeq(bytes, begin + 1, Len(bytes))

\* reject(err) and resolve(destUrl): a settled promise stays as it is.
settle(w, how) == [w EXCEPT !.settled = IF @ = "pending" THEN how ELSE @]

\* handleError: the stream is paused (writeStream), a write in flight is
\* aborted, which ends it with an error, and the promise is rejected.
handleError(w) ==
  settle([w EXCEPT !.paused = IF w.mode = "writeStream" THEN TRUE ELSE @,
                   !.readyState = IF @ = "WRITING" THEN "DONE" ELSE @,
                   !.error = IF w.readyState = "WRITING" THEN TRUE ELSE @,
                   !.pending = IF w.readyState = "WRITING" THEN <<>> ELSE @],
         "rejected")

\* writeChunk: fileWriter.write throws when a write is in flight, and
\* otherwise starts one.
writeChunk(w, chunkByteArray) ==
  LET w1 == [w EXCEPT !.previousFileWriterLength = w.length]
  IN IF w1.readyState = "WRITING"
     THEN handleError([w1 EXCEPT !.overlap = TRUE])
     ELSE [w1 EXCEPT !.readyState = "WRITING", !.pending = chunkByteArray,
                     !.error = FALSE]

\* onChunkReceived without the test of readyState.
onChunkReceivedUnguarded(w, chunkByteArray) ==
  writeChunk([w EXCEPT !.paused = IF w.mode = "writeStream" THEN TRUE ELSE @,
                       !.bufferedChunkBytes = @ \o chunkByteArray],
             chunkByteArray)

\* onChunkReceived: the chunk is buffered, and written when no write is in
\* flight.
onChunkReceived(w, chunkByteArray) ==
  LET w1 == [w EXCEPT !.paused = IF w.mode = "writeStream" THEN TRUE ELSE @,
                      !.bufferedChunkBytes = @ \o chunkByteArray]
  IN IF w1.readyState /= "WRITING" THEN writeChunk(w1, chunkByteArray) ELSE w1

\* onChunkWritten taking every write for a complete one of all the buffer.
onChunkWrittenAll(w) ==
  LET w1 == [w EXCEPT !.bufferedChunkBytes = <<>>]
  IN IF w1.error \/ w1.mode /= "writeStream" THEN w1
     ELSE IF w1.reachedEndOfInputStream THEN settle(w1, "resolved")
     ELSE [w1 EXCEPT !.paused = FALSE]

\* onChunkWritten, the writeend handler.
onChunkWritten(w) ==
  LET bytesWritten == w.length - w.previousFileWriterLength
      w1 == [w EXCEPT !.bufferedChunkBytes = slice(@, bytesWritten)]
  IN IF w1.error THEN w1
     ELSE IF Len(w1.bufferedChunkBytes) /= 0
          THEN writeChunk(w1, w1.bufferedChunkBytes)
     ELSE IF w1.mode /= "writeStream" THEN w1
     ELSE IF w1.reachedEndOfInputStream THEN settle(w1, "resolved")
     ELSE [w1 EXCEPT !.paused = FALSE]

\* One export.
Init ==
  \E unify \in BOOLEAN, d1 \in VarChoices, d2 \in FewVarChoices,
     v1 \in ValChoices, v2 \in FewValChoices, egoAttrs \in BOOLEAN,
     nNodes \in 0..MaxNodes, nEdges \in 0..MaxEdges, nSessions \in 0..MaxSessions :
    /\ unify \/ nSessions = 1
    /\ WellFormed(nNodes, nEdges, nSessions)
    /\ codebook = MakeCodebook(d1, d2)
    /\ exportOptions = MakeOptions(unify)
    /\ heap = <<MakeNetwork(unify, IF egoAttrs THEN Attrs(v1) ELSE <<>>, v1, v2,
                            nNodes, nEdges, nSessions)>>
    /\ heap0 = heap
    /\ gen = <<NewGenerator(1)>>
    /\ rs = NoRun
    /\ scan = NoScan
    /\ ret = NoCall
    /\ fw = NoWriter

\* The element counts of an export of many entities: around the batch size
\* and its multiples.
BatchCounts == {0, 1, ChunkSize} \cup {c * ChunkSize + 1 : c \in 1..MaxChunks}

\* One export of many entities.
InitBatch ==
  \E unify \in BOOLEAN, egoAttrs \in BOOLEAN,
     nNodes \in BatchCounts, nEdges \in BatchCounts, nSessions \in 1..MaxSessions :
    /\ unify \/ nSessions = 1
    /\ WellFormed(nNodes, nEdges, nSessions)
    /\ codebook = MakeCodebook(<<>>, <<>>)
    /\ exportOptions = MakeOptions(unify)
    /\ heap = <<MakeNetwork(unify, IF egoAttrs THEN Attrs(Val("string", "x")) ELSE <<>>,
                            Val("string", "x"), Val("string", "x"),
                            nNodes, nEdges, nSessions)>>
    /\ heap0 = heap
    /\ gen = <<NewGenerator(1)>>
    /\ rs = NoRun
    /\ scan = NoScan
    /\ ret = NoCall
    /\ fw = NoWriter

\* Two exports at once, over one network object or over two equal ones.
InitPair ==
  \E unify \in BOOLEAN, shared \in BOOLEAN, egoAttrs \in BOOLEAN,
     d1 \in {<<>>, <<VarDef("a", "alpha", "text", <<>>)>>},
     nNodes \in 0..MaxNodes, nEdges \in 0..MaxEdges, nSessions \in 0..MaxSessions :
    /\ unify \/ nSessions = 1
    /\ WellFormed(nNodes, nEdges, nSessions)
    /\ codebook = MakeCodebook(d1, <<>>)
    /\ exportOptions = MakeOptions(unify)
    /\ LET network == MakeNetwork(unify, IF egoAttrs THEN Attrs(Val("string", "x")) ELSE <<>>,
                                  Val("string", "x"), Val("string", "x"),
                                  nNodes, nEdges, nSessions)
       IN /\ heap = IF shared THEN <<network>> ELSE <<network, network>>
          /\ gen = <<NewGenerator(1), NewGenerator(IF shared THEN 1 ELSE 2)>>
    /\ heap0 = heap
    /\ rs = NoRun
    /\ scan = NoScan
    /\ ret = NoCall
    /\ fw = NoWriter

\* One call of resequenceIds.
InitReseq ==
  \E count \in 1..MaxReseqSessions, carried \in BOOLEAN :
    \E n \in [1..count -> 0..MaxReseqNodes] :
      LET real == UNION {{NodeUid(s, i) : i \in 1..n[s]} : s \in 1..count}
      IN \E ends \in [1..count -> SeqsUpTo(real \X real, MaxReseqEdges)] :
         /\ rs = resequenceIds([s \in 1..count |-> MakeSession(s, n[s], ends[s], carried)])
         /\ heap = <<>>
         /\ heap0 = <<>>
         /\ gen = <<>>
         /\ codebook = MakeCodebook(<<>>, <<>>)
         /\ exportOptions = MakeOptions(FALSE)
         /\ scan = NoScan
         /\ ret = NoCall
         /\ fw = NoWriter

\* Nothing exported.
NoExport ==
  /\ heap = <<>>
  /\ heap0 = <<>>
  /\ gen = <<>>
  /\ codebook = MakeCodebook(<<>>, <<>>)
  /\ exportOptions = MakeOptions(FALSE)

\* One call of getGraphMLTypeForKey(data, "a"): data.reduce(..., '') before
\* the first entity.
InitScan ==
  \E attrs \in SeqsUpTo(ScanAttrs, MaxScan) :
    /\ scan = [data |-> [i \in 1..Len(attrs) |->
                           Entity("n" \o ToString(i), "person", attrs[i])],
               key |-> "a", i |-> 1, result |-> "", pc |-> "scanning"]
    /\ NoExport
    /\ rs = NoRun
    /\ ret = NoCall
    /\ fw = NoWriter

\* The pull r of generator g takes effect.
Commit(g, r) ==
  /\ gen' = [gen EXCEPT ![g] = r.st]
  /\ heap' = [heap EXCEPT ![gen[g].net] = r.nw]
  /\ UNCHANGED <<heap0, codebook, exportOptions, rs, scan, ret, fw>>

Pulled(g) == Resume(gen[g], heap[gen[g].net], codebook, exportOptions)

\* One pull of generator g that ends as one of kinds.
Pull(g, kinds) ==
  /\ ~Finished(gen[g])
  /\ Pulled(g).kind \in kinds
  /\ Commit(g, Pulled(g))

YieldXmlHeader(g) == Pull(g, {"xmlHeader"})
YieldEgoKeys(g) == gen[g].pc = "L549" /\ Pull(g, {"keys"})
YieldNodeKeys(g) == gen[g].pc = "L559" /\ Pull(g, {"keys"})
YieldEdgeKeys(g) == gen[g].pc = "L562" /\ Pull(g, {"keys"})
YieldGraphHeader(g) == Pull(g, {"graphHeader"})
YieldEgoData(g) == Pull(g, {"egoData"})
YieldNodeChunk(g) == Pull(g, {"nodes"})
YieldEdgeChunk(g) == Pull(g, {"edges"})
YieldGraphFooter(g) == Pull(g, {"graphFooter"})
YieldXmlFooter(g) == Pull(g, {"xmlFooter"})
Return(g) == Pull(g, {"return"})
Throw(g) == Pull(g, {"throw"})

Next ==
  \/ \E g \in DOMAIN gen : YieldXmlHeader(g)
  \/ \E g \in DOMAIN gen : YieldEgoKeys(g)
  \/ \E g \in DOMAIN gen : YieldNodeKeys(g)
  \/ \E g \in DOMAIN gen : YieldEdgeKeys(g)
  \/ \E g \in DOMAIN gen : YieldGraphHeader(g)
  \/ \E g \in DOMAIN gen : YieldEgoData(g)
  \/ \E g \in DOMAIN gen : YieldNodeChunk(g)
  \/ \E g \in DOMAIN gen : YieldEdgeChunk(g)
  \/ \E g \in DOMAIN gen : YieldGraphFooter(g)
  \/ \E g \in DOMAIN gen : YieldXmlFooter(g)
  \/ \E g \in DOMAIN gen : Return(g)
  \/ \E g \in DOMAIN gen : Throw(g)

Spec == Init /\ [][Next]_vars
SpecBatch == InitBatch /\ [][Next]_vars
SpecPair == InitPair /\ [][Next]_vars

\* The attributes of an ego: the number a, the attribute b, both or none.
EgoAttrChoices ==
  LET b == [k |-> "b", v |-> Val("string", "x")]
  IN {<<>>, <<b>>} \cup {Attrs(v) : v \in {Val("int", "1"), Val("double", "2.5")}}
     \cup {Attrs(Val("int", "1")) \o <<b>>}

\* One unified export of sessions whose egos differ.  The codebook defines
\* the ego variable a as a number, and b or not.
InitEgos ==
  \E nSessions \in 1..MaxSessions, nNodes \in 0..MaxNodes, nEdges \in 0..MaxEdges,
     withB \in BOOLEAN :
    \E egoAttrs \in [1..nSessions -> EgoAttrChoices] :
      /\ WellFormed(nNodes, nEdges, nSessions)
      /\ codebook = MakeCodebook(
                      <<VarDef("a", "alpha", "number", <<>>)>>
                      \o (IF withB THEN <<VarDef("b", "beta", "text", <<>>)>> ELSE <<>>),
                      <<>>)
      /\ exportOptions = MakeOptions(TRUE)
      /\ heap = <<[MakeNetwork(TRUE, <<>>, Val("int", "1"), Val("string", "x"),
                               nNodes, nEdges, nSessions)
                    EXCEPT !.ego = [k \in 1..nSessions |->
                                      [sid |-> SessionName(k),
                                       ego |-> MakeEgo(SessionName(k), egoAttrs[k])]]]>>
      /\ heap0 = heap
      /\ gen = <<NewGenerator(1)>>
      /\ rs = NoRun
      /\ scan = NoScan
      /\ ret = NoCall
      /\ fw = NoWriter

SpecEgos == InitEgos /\ [][Next]_vars

\* The steps of resequenceIds.
Step(r) ==
  /\ rs' = r
  /\ UNCHANGED <<heap, heap0, codebook, exportOptions, gen, scan, ret, fw>>

ResequenceNode == rs.pc = "running" /\ rs.phase = "nodes" /\ Step(MapNode(rs))
ResequenceEdge == rs.pc = "running" /\ rs.phase = "edges" /\ Step(MapEdge(rs))
ReturnResequenced ==
  rs.pc = "running" /\ rs.phase = "end" /\ Step([rs EXCEPT !.pc = "returned"])

NextReseq ==
  \/ ResequenceNode
  \/ ResequenceEdge
  \/ ReturnResequenced

SpecReseq == InitReseq /\ [][NextReseq]_vars

\* The steps of getGraphMLTypeForKey.
ScanValue ==
  /\ scan.pc = "scanning" /\ scan.i <= Len(scan.data)
  /\ scan' = ScanStep(scan)
  /\ UNCHANGED <<heap, heap0, codebook, exportOptions, gen, rs, ret, fw>>

ScanReturn ==
  /\ scan.pc = "scanning" /\ scan.i > Len(scan.data)
  /\ scan' = [scan EXCEPT !.pc = "returned"]
  /\ UNCHANGED <<heap, heap0, codebook, exportOptions, gen, rs, ret, fw>>

NextScan ==
  \/ ScanValue
  \/ ScanReturn

SpecScan == InitScan /\ [][NextScan]_vars

\* The sessions a caller holds before it calls one function of the pipeline.
InitCalls ==
  \E count \in 1..MaxCallSessions, a \in AttrChoices,
     nodeKinds \in SeqsUpTo(NodeKinds, MaxCallNodes),
     edgeKinds \in SeqsUpTo(EdgeKinds, MaxCallEdges) :
    /\ edgeKinds /= <<>> => nodeKinds /= <<>>
    /\ heap = [s \in 1..count |-> CallSession(s, nodeKinds, edgeKinds, a.v)]
    /\ heap0 = heap
    /\ codebook = MakeCodebook(a.def, a.def)
    /\ exportOptions = [MakeOptions(FALSE) EXCEPT !.useScreenLayoutCoordinates = a.screen]
    /\ gen = <<>>
    /\ rs = NoRun
    /\ scan = NoScan
    /\ ret = NoCall
    /\ fw = NoWriter

\* The call returns value, or throws (ok = FALSE), after so many calls of
\* console.warn.
Returned(fn, arg, ok, value, warnings) ==
  /\ ret = NoCall
  /\ ret' = [fn |-> fn, arg |-> arg, ok |-> ok, value |-> value, warnings |-> warnings]
  /\ UNCHANGED <<heap, heap0, codebook, exportOptions, gen, rs, scan, fw>>

CallGenerateDataElements(type) ==
  /\ type \in {"node", "edge"}
  /\ LET r == generateDataElements(
                IF type = "node" THEN heap[1].nodes ELSE heap[1].edges,
                type, <<>>, codebook, exportOptions)
     IN Returned("generateDataElements", type, r.ok, r.elems, r.warnings)

CallGenerateEgoDataElements ==
  /\ heap /= <<>>
  /\ LET r == generateEgoDataElements(heap[1].ego, <<>>, codebook, exportOptions)
     IN Returned("generateEgoDataElements", "ego", r.ok, r.data, 0)

\* processEntityVariables on the first node, the first edge or the ego.
CallProcessEntityVariables(type) ==
  /\ type = "node" => heap[1].nodes /= <<>>
  /\ type = "edge" => heap[1].edges /= <<>>
  /\ Returned("processEntityVariables", type, TRUE,
              <<processEntityVariables(
                  CASE type = "node" -> heap[1].nodes[1]
                    [] type = "edge" -> heap[1].edges[1]
                    [] OTHER -> heap[1].ego,
                  type, codebook, exportOptions)>>, 0)

\* The formats of the exporters and two that are none of them.
Formats == {"graphml", "ego", "attributeList", "edgeList", "adjacencyMatrix", "csv", ""}

CallPartitionNetworkByType(format) ==
  /\ format \in Formats
  /\ LET r == partitionNetworkByType(codebook, heap[1], format)
     IN Returned("partitionNetworkByType", format, r.ok, r.parts, 0)

CallInsertEgoIntoSessionNetworks ==
  /\ heap /= <<>>
  /\ Returned("insertEgoIntoSessionNetworks", "", TRUE, insertEgoIntoSessionNetworks(heap), 0)

NextCalls ==
  \/ \E type \in {"node", "edge"} : CallGenerateDataElements(type)
  \/ CallGenerateEgoDataElements
  \/ \E type \in {"node", "edge", "ego"} : CallProcessEntityVariables(type)
  \/ \E format \in Formats : CallPartitionNetworkByType(format)
  \/ CallInsertEgoIntoSessionNetworks

SpecCalls == InitCalls /\ [][NextCalls]_vars

(***************************************************************************)
(* The preprocessing functions called one after the other, on the sessions *)
(* the caller holds and on what earlier calls returned.  heap holds the    *)
(* session objects: a call reads the object at a place of the heap, and    *)
(* the sessions it returns are new objects, put at the end.  ret names the *)
(* last call.                                                              *)
(***************************************************************************)
MaxFrameNodes == 2
MaxFrameCalls == 2

\* A session as it comes in: the edges hold the primary keys of their nodes
\* in from and to, and no entity has an export ID.
InitFrame ==
  \E nodeKinds \in SeqsUpTo(NodeKinds, MaxFrameNodes), edgeKinds \in SeqsUpTo(EdgeKinds, 1) :
    /\ edgeKinds /= <<>> => nodeKinds /= <<>>
    /\ LET session == CallSession(1, nodeKinds, edgeKinds, Val("string", "x"))
       IN heap = <<Same([session EXCEPT
                    !.nodes = [i \in 1..Len(session.nodes) |->
                                 [session.nodes[i] EXCEPT !.exportID = NoID]],
                    !.edges = [j \in 1..Len(session.edges) |->
                                 [session.edges[j] EXCEPT !.exportID = NoID,
                                    !.from = session.edges[j].srcUUID,
                                    !.to = session.edges[j].tgtUUID,
                                    !.srcUUID = UNDEF, !.tgtUUID = UNDEF]]])>>
    /\ heap0 = heap
    /\ codebook = MakeCodebook(<<VarDef("a", "alpha", "text", <<>>)>>, <<>>)
    /\ exportOptions = MakeOptions(FALSE)
    /\ gen = <<>>
    /\ rs = NoRun
    /\ scan = NoScan
    /\ ret = NoCall
    /\ fw = NoWriter

\* The call fn(arg) on the object at a place of the heap has returned the
\* new session objects, or thrown.
Called(fn, arg, ok, objects) ==
  /\ ret.warnings < MaxFrameCalls
  /\ heap' = heap \o objects
  /\ ret' = [fn |-> fn, arg |-> arg, ok |-> ok, value |-> <<>>, warnings |-> ret.warnings + 1]
  /\ UNCHANGED <<heap0, codebook, exportOptions, gen, rs, scan, fw>>

FrameInsertNetworkEgoInPlace(i) ==
  /\ i \in DOMAIN heap
  /\ ret.warnings < MaxFrameCalls
  /\ heap' = [heap EXCEPT ![i] = insertNetworkEgo(heap[i])]
  /\ ret' = [ret EXCEPT !.fn = "insertNetworkEgo", !.warnings = @ + 1]
  /\ UNCHANGED <<heap0, codebook, exportOptions, gen, rs, scan, fw>>

FrameInsertNetworkEgo(i) ==
  /\ i \in DOMAIN heap
  /\ Called("insertNetworkEgo", "", TRUE, <<insertNetworkEgo(heap[i])>>)

\* resequenceIds([session]) run to its return: { ...session, nodes, edges },
\* on a session whose edges still hold primary keys in from and to.
FrameResequenceIds(i) ==
  /\ i \in DOMAIN heap
  /\ \A j \in 1..Len(heap[i].edges) : heap[i].edges[j].srcUUID = UNDEF
  /\ LET RECURSIVE Run(_)
         Run(r) == IF r.phase = "end" THEN r.result
                   ELSE IF r.phase = "nodes" THEN Run(MapNode(r))
                   ELSE Run(MapEdge(r))
         result == Run(resequenceIds(<<heap[i]>>))
     IN Called("resequenceIds", "", TRUE,
               <<[heap[i] EXCEPT !.nodes = result[1].nodes, !.edges = result[1].edges]>>)

FramePartitionNetworkByType(i, format) ==
  /\ i \in DOMAIN heap
  /\ LET r == partitionNetworkByType(codebook, heap[i], format)
     IN Called("partitionNetworkByType", format, r.ok, r.parts)

\* processEntityVariables on the first node of a session: it returns an
\* entity, no session.
FrameProcessEntityVariables(i) ==
  /\ i \in DOMAIN heap
  /\ heap[i].nodes /= <<>>
  /\ processEntityVariables(heap[i].nodes[1], "node", codebook, exportOptions).uid
       = heap[i].nodes[1].uid
  /\ Called("processEntityVariables", "node", TRUE, <<>>)

NextFrame ==
  \/ \E i \in DOMAIN heap : FrameInsertNetworkEgo(i)
  \/ \E i \in DOMAIN heap : FrameResequenceIds(i)
  \/ \E i \in DOMAIN heap, format \in {"attributeList", "edgeList", "csv"} :
       FramePartitionNetworkByType(i, format)
  \/ \E i \in DOMAIN heap : FrameProcessEntityVariables(i)

SpecFrame == InitFrame /\ [][NextFrame]_vars

(***************************************************************************)
(* Calls of generateKeyElements on a collection whose entities hold the    *)
(* attribute a, an attribute with the key "type", both or none.  The       *)
(* codebook defines a, with one of the variable types or with a type that  *)
(* is none of them, or does not define it; it never defines "type".        *)
(***************************************************************************)
MaxKeyEntities == 2

KeyDefChoices ==
  { <<VarDef("a", "alpha", t, <<>>)>> :
      t \in {"boolean", "ordinal", "number", "scalar", "layout", "categorical", "text",
             "datetime", "location"} }
  \cup { <<VarDef("a", "alpha", "categorical", <<"A", "B">>)>>, <<>> }

KeyAttrChoices ==
  LET vals == {Val("int", "1"), Val("double", "2.5"), Val("string", "two")}
      type == [k |-> "type", v |-> Val("string", "x")]
  IN {<<>>, <<type>>} \cup {Attrs(v) : v \in vals} \cup {Attrs(v) \o <<type>> : v \in vals}

InitKeys ==
  \E def \in KeyDefChoices, attrs \in SeqsUpTo(KeyAttrChoices, MaxKeyEntities) :
    /\ attrs /= <<>>
    /\ heap = <<[nodes |-> [i \in 1..Len(attrs) |-> Entity(NodeUid(1, i), "person", attrs[i])],
                 edges |-> [i \in 1..Len(attrs) |-> Entity(EdgeUid(1, i), "friend", attrs[i])],
                 ego |-> MakeEgo(SessionName(1), attrs[1]),
                 sessionVariables |-> SessionVars(SessionName(1))]>>
    /\ heap0 = heap
    /\ codebook = MakeCodebook(def, def)
    /\ exportOptions = MakeOptions(FALSE)
    /\ gen = <<>>
    /\ rs = NoRun
    /\ scan = NoScan
    /\ ret = NoCall
    /\ fw = NoWriter

\* generateKeyElements on the nodes, on the edges or on [ego], nothing
\* excluded.
CallGenerateKeyElements(type) ==
  /\ type \in {"node", "edge", "ego"}
  /\ Returned("generateKeyElements", type, TRUE,
              generateKeyElements(CASE type = "node" -> heap[1].nodes
                                    [] type = "edge" -> heap[1].edges
                                    [] OTHER -> <<heap[1].ego>>,
                                  type, <<>>, codebook),
              0)

NextKeys == \E type \in {"node", "edge", "ego"} : CallGenerateKeyElements(type)

SpecKeys == InitKeys /\ [][NextKeys]_vars

(***************************************************************************)
(* Properties of the fragment sequence of graphMLGenerator.                *)
(***************************************************************************)
RECURSIVE SeqToSet(_)
SeqToSet(seq) == IF seq = <<>> THEN {} ELSE {Head(seq)} \cup SeqToSet(Tail(seq))

\* The key values carried by the <data> of a fragment.
DataKeysOf(frag) ==
  {frag.data[m].key : m \in 1..Len(frag.data)}
  \cup UNION {{frag.elems[e].data[m].key : m \in 1..Len(frag.elems[e].data)} :
              e \in 1..Len(frag.elems)}

\* The for attribute of the <key>s of an entity kind.
KeyTargetOf(kind) ==
  CASE kind = "egoData" -> "graph" [] kind = "nodes" -> "node" [] OTHER -> "edge"

\* The ids declared, for a kind or for all, by the fragments before the j-th.
DeclaredBefore(out, j, kind) ==
  UNION {{out[i].keys[m].id : m \in {m \in 1..Len(out[i].keys) :
                                        out[i].keys[m].for \in {KeyTargetOf(kind), "all"}}} :
         i \in 1..(j - 1)}

IsDataFrag(frag) == frag.kind \in {"egoData", "nodes", "edges"}

\* C1: every key carried by a <data> of an ego, node or edge is the id of a
\* <key> declared in an earlier fragment for that entity kind (or for all).
C1_DataKeysDeclared ==
  \A g \in DOMAIN gen :
    \A j \in 1..Len(gen[g].out) :
      IsDataFrag(gen[g].out[j]) =>
        DataKeysOf(gen[g].out[j]) \subseteq DeclaredBefore(gen[g].out, j, gen[g].out[j].kind)

\* C2: the <key>s of one generateKeyElements call never hold two <key>
\* elements with the same id.
C2_NoDuplicateKeyIds ==
  \A g \in DOMAIN gen :
    \A j \in 1..Len(gen[g].out) :
      \A m, n \in 1..Len(gen[g].out[j].keys) :
        m /= n => gen[g].out[j].keys[m].id /= gen[g].out[j].keys[n].id

\* The place of a fragment in the document: 1 the XML preamble, 2 to 4 the
\* ego, node and edge keys, 5 a graph header, 6 ego data, 7 node elements,
\* 8 edge elements, 9 a graph footer, 10 the document footer.
Rank(frag) ==
  CASE frag.kind = "xmlHeader" -> 1
    [] frag.kind = "keys" ->
         (CASE frag.for = "ego" -> 2 [] frag.for = "node" -> 3 [] OTHER -> 4)
    [] frag.kind = "graphHeader" -> 5
    [] frag.kind = "egoData" -> 6
    [] frag.kind = "nodes" -> 7
    [] frag.kind = "edges" -> 8
    [] frag.kind = "graphFooter" -> 9
    [] OTHER -> 10

\* What may follow a fragment in a document of one graph.
PlainSucc(r) ==
  CASE r \in 1..5 -> {r + 1}
    [] r \in {6, 7} -> {7, 8, 9}
    [] r = 8 -> {8, 9}
    [] r = 9 -> {10}
    [] OTHER -> {}

\* What may follow a fragment in a document of one graph per session.
UnifiedSucc(r) ==
  CASE r \in 1..3 -> {r + 1}
    [] r = 4 -> {5, 10}
    [] r = 5 -> {6}
    [] r \in {6, 7} -> {7, 8, 9}
    [] r = 8 -> {8, 9}
    [] r = 9 -> {5, 10}
    [] OTHER -> {}

Unify == exportOptions.unifyNetworks
Count(out, kind) == Cardinality({j \in 1..Len(out) : out[j].kind = kind})
HasKind(out, kind) == \E j \in 1..Len(out) : out[j].kind = kind

\* C5: without unification the fragments come in the order preamble, ego
\* keys, node keys, edge keys, one graph header, ego data, node fragments,
\* edge fragments, one graph footer, document footer; a generator that has
\* returned has yielded them up to the document footer.
C5_PlainOrder ==
  \A g \in DOMAIN gen :
    ~Unify =>
      LET out == gen[g].out
      IN /\ out /= <<>> => Rank(out[1]) = 1
         /\ \A j \in 1..(Len(out) - 1) : Rank(out[j + 1]) \in PlainSucc(Rank(out[j]))
         /\ gen[g].pc = "done" =>
              /\ out /= <<>> /\ Rank(out[Len(out)]) = 10
              /\ Count(out, "graphHeader") = 1 /\ Count(out, "graphFooter") = 1

C5_Witness ==
  \E g \in DOMAIN gen :
    /\ ~Unify /\ gen[g].pc = "done"
    /\ HasKind(gen[g].out, "nodes") /\ HasKind(gen[g].out, "edges")
    /\ HasKind(gen[g].out, "egoData")

\* The graph headers of a fragment sequence, in order.
RECURSIVE HeadersOf(_)
HeadersOf(out) ==
  IF out = <<>> THEN <<>>
  ELSE (IF Head(out).kind = "graphHeader" THEN <<Head(out).hdr>> ELSE <<>>)
       \o HeadersOf(Tail(out))

\* The session of the graph section the j-th fragment lies in.
SectionOf(out, j) ==
  LET hs == {i \in 1..j : out[i].kind = "graphHeader"}
  IN IF hs = {} THEN UNDEF
     ELSE out[CHOOSE i \in hs : \A h \in hs : h <= i].hdr.sid

\* The primary keys of the entities of a session in an array.
UidsOfSession(coll, sid) ==
  {coll.items[i].uid : i \in {i \in 1..Len(coll.items) : coll.items[i].sid = sid}}

\* The primary keys the elements of a fragment carry (their first <data>).
UidsIn(frag) == {frag.elems[e].data[1].text : e \in 1..Len(frag.elems)}

\* C6: with unification there is one graph section per entry of
\* sessionVariables, in the order of that object; a section is the header
\* built from the session's variables, the session's ego data, fragments of
\* the session's nodes only, fragments of its edges only, and a graph
\* footer; sections do not interleave, and a generator that has returned
\* has yielded as many headers and footers as there are sessions.
C6_UnifiedSections ==
  \A g \in DOMAIN gen :
    Unify =>
      LET out == gen[g].out
          nw0 == heap0[gen[g].net]
          hdrs == HeadersOf(out)
      IN /\ out /= <<>> => Rank(out[1]) = 1
         /\ \A j \in 1..(Len(out) - 1) : Rank(out[j + 1]) \in UnifiedSucc(Rank(out[j]))
         /\ Len(hdrs) <= Len(nw0.sessionVariables)
         /\ \A k \in 1..Len(hdrs) : hdrs[k] = nw0.sessionVariables[k].vars
         /\ \A j \in 1..Len(out) :
              /\ out[j].kind = "egoData" =>
                   /\ HasEntry(nw0.ego, SectionOf(out, j))
                   /\ out[j].data[1].text = EntryOf(nw0.ego, SectionOf(out, j)).ego.uid
              /\ out[j].kind = "nodes" =>
                   UidsIn(out[j]) \subseteq UidsOfSession(nw0.nodes, SectionOf(out, j))
              /\ out[j].kind = "edges" =>
                   UidsIn(out[j]) \subseteq UidsOfSession(nw0.edges, SectionOf(out, j))
         /\ gen[g].pc = "done" =>
              /\ Rank(out[Len(out)]) = 10
              /\ Len(hdrs) = Len(nw0.sessionVariables)
              /\ Count(out, "graphFooter") = Len(hdrs)

C6_Witness ==
  \E g \in DOMAIN gen :
    /\ Unify /\ gen[g].pc = "done"
    /\ Count(gen[g].out, "graphHeader") = 2
    /\ Count(gen[g].out, "nodes") = 2
    /\ HasKind(gen[g].out, "edges")

\* C8: a generator that has ended (a network with at least one graph
\* section) has ended by returning, and the last two fragments it yielded
\* are a graph footer and the document footer.
C8_EndsWithFooters ==
  \A g \in DOMAIN gen :
    (Finished(gen[g]) /\ (Unify => heap0[gen[g].net].sessionVariables /= <<>>)) =>
      LET out == gen[g].out
      IN /\ gen[g].pc = "done"
         /\ Len(out) >= 2
         /\ out[Len(out) - 1].kind = "graphFooter"
         /\ out[Len(out)].kind = "xmlFooter"

\* C10: the network handed to graphMLGenerator holds what it held at the
\* call, however many fragments have been pulled.
C10_NetworkUnchanged == heap = heap0

(***************************************************************************)
(* Properties of resequenceIds.                                            *)
(***************************************************************************)
\* The entities of sessions in the order sessions, nodes before edges.
RECURSIVE Flat(_)
Flat(sessions) ==
  IF sessions = <<>> THEN <<>>
  ELSE Head(sessions).nodes \o Head(sessions).edges \o Flat(Tail(sessions))

\* C3: the entities resequenceIds returns carry, in the order sessions,
\* nodes before edges, the export IDs 1, 2, 3, ...: the IDs increase by one
\* from 1 and no two entities carry the same.
C3_ExportIdsSequential ==
  rs.pc = "returned" =>
    \A p \in 1..Len(Flat(rs.result)) : Flat(rs.result)[p].exportID = p

\* C4: in what resequenceIds returns, the from (to) of an edge whose source
\* (target) key is the primary key of a node is the export ID that node
\* carries, whichever session the node is in.
C4_EndpointsAreExportIds ==
  rs.pc = "returned" =>
    \A s, t \in 1..Len(rs.result) :
      \A j \in 1..Len(rs.result[s].edges), i \in 1..Len(rs.result[t].nodes) :
        LET edge == rs.result[s].edges[j]
            node == rs.result[t].nodes[i]
        IN /\ edge.srcUUID = node.uid => edge.from = node.exportID
           /\ edge.tgtUUID = node.uid => edge.to = node.exportID

(***************************************************************************)
(* Batches, and generators side by side.                                   *)
(***************************************************************************)
\* The sizes of the fragments n entities come in: hundreds, then the rest.
ChunkLens(n) ==
  [c \in 1..((n + ChunkSize - 1) \div ChunkSize) |->
     IF c * ChunkSize <= n THEN ChunkSize ELSE n - (c - 1) * ChunkSize]

\* The sizes of the fragments of one kind in the graph section of a session.
RECURSIVE FragLens(_, _, _, _)
FragLens(out, j, kind, sid) ==
  IF j > Len(out) THEN <<>>
  ELSE (IF out[j].kind = kind /\ SectionOf(out, j) = sid
        THEN <<Len(out[j].elems)>> ELSE <<>>)
       \o FragLens(out, j + 1, kind, sid)

\* How many entities of a collection the graph section of a session takes:
\* all of them without unification, those of the session with it.
SectionSize(coll, sid) ==
  IF Unify THEN Cardinality({i \in 1..Len(coll.items) : coll.items[i].sid = sid})
  ELSE Len(coll.items)

\* C7: every node or edge fragment holds 1 to 100 elements, and once the
\* generator has returned the n entities of a collection (of a session's
\* group) have come as ceil(n/100) fragments, all of 100 but the last; no
\* fragment for n = 0.
C7_Batches ==
  \A g \in DOMAIN gen :
    LET out == gen[g].out
        nw0 == heap0[gen[g].net]
    IN /\ \A j \in 1..Len(out) :
            out[j].kind \in {"nodes", "edges"} => Len(out[j].elems) \in 1..ChunkSize
       /\ gen[g].pc = "done" =>
            \A h \in 1..Len(HeadersOf(out)) :
              /\ FragLens(out, 1, "nodes", HeadersOf(out)[h].sid)
                   = ChunkLens(SectionSize(nw0.nodes, HeadersOf(out)[h].sid))
              /\ FragLens(out, 1, "edges", HeadersOf(out)[h].sid)
                   = ChunkLens(SectionSize(nw0.edges, HeadersOf(out)[h].sid))

C7_Witness ==
  \E g \in DOMAIN gen :
    /\ Unify /\ gen[g].pc = "done"
    /\ \E j \in 1..(Len(gen[g].out) - 1) :
         /\ gen[g].out[j].kind = "nodes" /\ Len(gen[g].out[j].elems) = ChunkSize
         /\ gen[g].out[j + 1].kind = "nodes" /\ Len(gen[g].out[j + 1].elems) = 1
    /\ \E j \in 1..(Len(gen[g].out) - 1) :
         /\ gen[g].out[j].kind = "edges" /\ Len(gen[g].out[j].elems) = ChunkSize
         /\ gen[g].out[j + 1].kind = "graphFooter"

\* A generator consumed alone, from st over the network nw to its end.
RECURSIVE RunAlone(_, _)
RunAlone(st, nw) ==
  IF Finished(st) THEN st
  ELSE RunAlone(Resume(st, nw, codebook, exportOptions).st,
                Resume(st, nw, codebook, exportOptions).nw)

Alone(g) == RunAlone(NewGenerator(gen[g].net), heap0[gen[g].net])

IsPrefix(a, b) == Len(a) <= Len(b) /\ a = SubSeq(b, 1, Len(a))

\* C9: whatever the interleaving of the pulls of two generators, each has
\* yielded a prefix of what it yields when consumed alone, and one that has
\* ended has ended the same way after the same fragments.
C9_AsWhenAlone ==
  \A g \in DOMAIN gen :
    /\ IsPrefix(gen[g].out, Alone(g).out)
    /\ Finished(gen[g]) => gen[g].pc = Alone(g).pc /\ gen[g].out = Alone(g).out

(***************************************************************************)
(* Properties of getGraphMLTypeForKey.                                     *)
(***************************************************************************)
\* The values of the key on the entities that have it, null left out.
RECURSIVE PresentVals(_, _)
PresentVals(data, key) ==
  IF data = <<>> THEN <<>>
  ELSE (IF AttrValue(getEntityAttributes(Head(data)), key).t = "null" THEN <<>>
        ELSE <<AttrValue(getEntityAttributes(Head(data)), key)>>)
       \o PresentVals(Tail(data), key)

\* The entities that have a value under the key.
RECURSIVE PresentData(_, _)
PresentData(data, key) ==
  IF data = <<>> THEN <<>>
  ELSE (IF AttrValue(getEntityAttributes(Head(data)), key).t = "null" THEN <<>>
        ELSE <<Head(data)>>)
       \o PresentData(Tail(data), key)

IsNumber(v) == v.t \in {"int", "double"}
NonNumeric(v) == v.t = "string" /\ v.s \notin (IntStrings \cup DoubleStrings)

\* C11: getGraphMLTypeForKey returns int when every present value is an
\* integer, double when the present values are numbers and one has a
\* fraction, string when a number and a non-numeric value are present; the
\* entities without the key or with null under it do not change the result.
C11_InferredType ==
  scan.pc = "returned" =>
    LET vals == PresentVals(scan.data, scan.key)
        all(P(_)) == vals /= <<>> /\ \A j \in 1..Len(vals) : P(vals[j])
        some(P(_)) == \E j \in 1..Len(vals) : P(vals[j])
        isInt(v) == v.t = "int"
        isDouble(v) == v.t = "double"
    IN /\ all(isInt) => scan.result = "int"
       /\ all(IsNumber) /\ some(isDouble) => scan.result = "double"
       /\ some(IsNumber) /\ some(NonNumeric) => scan.result = "string"
       /\ scan.result = getGraphMLTypeForKey(PresentData(scan.data, scan.key), scan.key)

\* The place of a type in the order int < double < string (0 for the others).
Width(type) ==
  CASE type = "int" -> 1 [] type = "double" -> 2 [] type = "string" -> 3 [] OTHER -> 0

\* C12: no step of the scan narrows the running type: from double it does
\* not go to int, and from string it goes nowhere.
C12_NeverNarrows ==
  [][(scan.result = "double" => scan'.result /= "int")
     /\ (scan.result = "string" => scan'.result = "string")]_vars

(***************************************************************************)
(* Properties of the calls of generateDataElements and                     *)
(* generateEgoDataElements.                                                *)
(***************************************************************************)
\* The entities a call was made on, in the order of the elements it gives.
CalledOn ==
  CASE ret.fn = "generateDataElements" /\ ret.arg = "node" -> heap0[1].nodes
    [] ret.fn = "generateDataElements" /\ ret.arg = "edge" -> heap0[1].edges
    [] ret.fn = "generateEgoDataElements" -> <<heap0[1].ego>>
    [] ret.fn = "generateKeyElements" /\ ret.arg = "node" -> heap0[1].nodes
    [] ret.fn = "generateKeyElements" /\ ret.arg = "edge" -> heap0[1].edges
    [] ret.fn = "generateKeyElements" -> <<heap0[1].ego>>
    [] OTHER -> <<>>

\* The <data> a call gave for the attributes of its i-th entity: what
\* follows the <data> of the reserved properties.
AttributeDataOf(i) ==
  CASE ret.fn = "generateEgoDataElements" -> Tail(ret.value)
    [] ret.arg = "edge" -> SubSeq(ret.value[i].data, 5, Len(ret.value[i].data))
    [] OTHER -> SubSeq(ret.value[i].data, 4, Len(ret.value[i].data))

\* The definition of the attribute a of the entities of the call.
DefOfA == FindVar(codebook.ego.variables, "a")

\* C13: for every entity with a categorical attribute and a non-empty
\* selection, the generator gives one boolean <data> per option of the
\* codebook, in their order, keyed by the attribute key, "_" and the hash of
\* the option value, true iff the selection holds the option value.
C13_CategoricalData ==
  ret.fn \in {"generateDataElements", "generateEgoDataElements"} /\ ret.ok =>
    \A i \in 1..Len(CalledOn) :
      LET v == AttrValue(CalledOn[i].attrs, "a")
      IN DefOfA.type = "categorical" /\ v.t = "array" /\ v.sel /= <<>> =>
           AttributeDataOf(i) =
             [j \in 1..Len(DefOfA.options) |->
                Datum("a_" \o sha1(DefOfA.options[j]),
                      IF \E n \in 1..Len(v.sel) : v.sel[n] = DefOfA.options[j]
                      THEN "true" ELSE "false")]

C13_Witness ==
  /\ ret.fn = "generateDataElements" /\ ret.arg = "node" /\ ret.ok
  /\ Len(ret.value) = 2 /\ Defined(heap0[1].nodes[2].uid)
  /\ AttrValue(heap0[1].nodes[2].attrs, "a") = ArrayVal(<<"A", "C">>)
  /\ DefOfA.options = <<"A", "B", "C">>
  /\ [j \in 1..3 |-> AttributeDataOf(2)[j].text] = <<"true", "false", "true">>

\* The two coordinates, as <<key, text or value, n>>, that a call gave for
\* the attribute a of its i-th entity.
CoordsOf(i) ==
  IF ret.fn = "processEntityVariables"
  THEN [j \in 1..Len(ret.value[1].attrs) |->
          <<ret.value[1].attrs[j].k, ret.value[1].attrs[j].v.s, ret.value[1].attrs[j].n>>]
  ELSE [j \in 1..Len(AttributeDataOf(i)) |->
          <<AttributeDataOf(i)[j].key, AttributeDataOf(i)[j].text, AttributeDataOf(i)[j].n>>]

\* n hundredths is the number of m millionths rounded to two decimals.
RoundedTo(n, m) == 10000 * n - m \in -5000..5000

\* C14: for a layout attribute with value (x, y), processEntityVariables,
\* generateDataElements and generateEgoDataElements give, with
\* useScreenLayoutCoordinates, x * screenLayoutWidth and
\* (1 - y) * screenLayoutHeight rounded to two decimals, and without it x
\* and y as they are.
C14_LayoutCoordinates ==
  ret.fn \in {"generateDataElements", "generateEgoDataElements", "processEntityVariables"}
  /\ ret.ok =>
    \A i \in 1..(IF ret.fn = "processEntityVariables" THEN 1 ELSE Len(CalledOn)) :
      LET entity == CASE ret.fn /= "processEntityVariables" -> CalledOn[i]
                      [] ret.arg = "node" -> heap0[1].nodes[1]
                      [] ret.arg = "edge" -> heap0[1].edges[1]
                      [] OTHER -> heap0[1].ego
          v == AttrValue(entity.attrs, "a")
          c == CoordsOf(i)
      IN DefOfA.type = "layout" /\ v.t = "object" =>
           /\ Len(c) = 2
           /\ IF exportOptions.useScreenLayoutCoordinates
              THEN /\ c[1][2] = "toFixed(2)" /\ c[2][2] = "toFixed(2)"
                   /\ RoundedTo(c[1][3], v.x * exportOptions.screenLayoutWidth)
                   /\ RoundedTo(c[2][3], (1000000 - v.y) * exportOptions.screenLayoutHeight)
              ELSE c[1][2] = "number" /\ c[2][2] = "number"
                   /\ c[1][3] = v.x /\ c[2][3] = v.y

\* (0.25, 0.75) on a screen of 800 x 600 gives 200.00 and 150.00, by
\* processEntityVariables here.
C14_Witness ==
  /\ ret.fn = "processEntityVariables" /\ ret.arg = "edge"
  /\ exportOptions.useScreenLayoutCoordinates
  /\ exportOptions.screenLayoutWidth = 800 /\ exportOptions.screenLayoutHeight = 600
  /\ AttrValue(heap0[1].edges[1].attrs, "a") = LayoutVal(250000, 750000)
  /\ CoordsOf(1) = << <<"alpha_x", "toFixed(2)", 20000>>, <<"alpha_y", "toFixed(2)", 15000>> >>

(***************************************************************************)
(* Properties of partitionNetworkByType.                                   *)
(***************************************************************************)
\* The session partitionNetworkByType was called on.
Partitioned == heap0[1]

\* The entities the format partitions, and those of a part.
KindOf(format) == IF format = "attributeList" THEN "node" ELSE "edge"
Of(kind, session) == IF kind = "node" THEN session.nodes ELSE session.edges

\* C15: partitionNetworkByType returns the session alone and as it is for
\* graphml and ego, for attributeList without nodes and for edgeList and
\* adjacencyMatrix without edges; it never returns an empty sequence.
C15_SessionAlone ==
  ret.fn = "partitionNetworkByType" =>
    /\ (\/ ret.arg \in {"graphml", "ego"}
        \/ ret.arg = "attributeList" /\ Partitioned.nodes = <<>>
        \/ ret.arg \in {"edgeList", "adjacencyMatrix"} /\ Partitioned.edges = <<>>)
       => /\ ret.ok
          /\ Len(ret.value) = 1
          /\ ret.value[1].nodes = Partitioned.nodes
          /\ ret.value[1].edges = Partitioned.edges
          /\ ret.value[1].ego = Partitioned.ego
          /\ ret.value[1].sessionVariables = Partitioned.sessionVariables
          /\ ret.value[1].partitionEntity = UNDEF
          /\ heap = heap0
    /\ ret.ok => ret.value /= <<>>

C15_Witness ==
  /\ ret.fn = "partitionNetworkByType" /\ ret.arg = "edgeList" /\ ret.ok
  /\ Partitioned.edges = <<>> /\ Len(Partitioned.nodes) = 2
  /\ Len(ret.value) = 1 /\ ret.value[1].nodes = Partitioned.nodes

\* C16: for attributeList with nodes (edgeList and adjacencyMatrix with
\* edges) there is one part per subtype present; a part holds the entities
\* of its subtype, all of them and in their order in the session, so every
\* entity is in one part; partitionEntity is the codebook's name of the
\* subtype; the other fields of a part are the session's.
C16_OnePartPerSubtype ==
  ret.fn = "partitionNetworkByType"
  /\ ret.arg \in {"attributeList", "edgeList", "adjacencyMatrix"}
  /\ Of(KindOf(ret.arg), Partitioned) /= <<>> =>
    LET kind == KindOf(ret.arg)
        all == Of(kind, Partitioned)
        types == {all[i].type : i \in 1..Len(all)}
        ofType(t) == SelectSeq(all, LAMBDA e : e.type = t)
    IN /\ ret.ok
       /\ Len(ret.value) = Cardinality(types)
       /\ \A t \in types :
            \E p \in 1..Len(ret.value) :
              /\ Of(kind, ret.value[p]) = ofType(t)
              /\ ret.value[p].partitionEntity = codebook[kind][t].name
              /\ \A q \in 1..Len(ret.value) : Of(kind, ret.value[q]) = ofType(t) => q = p
       /\ \A p \in 1..Len(ret.value) :
            /\ kind = "node" => ret.value[p].edges = Partitioned.edges
            /\ kind = "edge" => ret.value[p].nodes = Partitioned.nodes
            /\ ret.value[p].ego = Partitioned.ego
            /\ ret.value[p].sessionVariables = Partitioned.sessionVariables

\* Nodes of two subtypes in turn: a person, a place, a person.
C16_Witness ==
  /\ ret.fn = "partitionNetworkByType" /\ ret.arg = "attributeList" /\ ret.ok
  /\ Len(Partitioned.nodes) = 3 /\ Len(Partitioned.edges) = 1
  /\ Len(ret.value) = 2
  /\ ret.value[1].partitionEntity = "Person"
  /\ ret.value[1].nodes = <<Partitioned.nodes[1], Partitioned.nodes[3]>>
  /\ ret.value[2].nodes = <<Partitioned.nodes[2]>>

\* C17: with a format that is none of graphml, ego, attributeList, edgeList
\* and adjacencyMatrix the call throws, whatever the session holds: nothing
\* is returned, and the session and the codebook are as they were.
C17_UnexpectedFormat ==
  [][ret'.fn = "partitionNetworkByType"
     /\ ret'.arg \notin {"graphml", "ego", "attributeList", "edgeList", "adjacencyMatrix"}
     => /\ ~ret'.ok
        /\ ret'.value = <<>>
        /\ heap' = heap /\ heap' = heap0
        /\ codebook' = codebook]_vars

C17_Witness ==
  /\ ret.fn = "partitionNetworkByType" /\ ret.arg = "csv" /\ ~ret.ok
  /\ Len(Partitioned.nodes) = 2 /\ Len(Partitioned.edges) = 2

(***************************************************************************)
(* Attributes that the codebook does not define.                           *)
(***************************************************************************)
\* C18: with the attribute a on the entities and in no variables object of
\* the codebook, a generator that has ended has returned, every <key> it
\* declared for a is a string key whose id is the hash of a, and every
\* <data> it gave for a is keyed by that hash.
C18_AbsentFromCodebook ==
  \A g \in DOMAIN gen :
    (/\ Finished(gen[g])
     /\ codebook.ego.variables = <<>>
     /\ \A kind \in {"node", "edge"} :
          \A t \in DOMAIN codebook[kind] : codebook[kind][t].variables = <<>>) =>
      LET out == gen[g].out
          reserved == {ncUUIDProperty, ncTypeProperty, ncSourceUUID, ncTargetUUID, "label"}
      IN /\ gen[g].pc = "done"
         /\ \A f \in 1..Len(out) :
              /\ \A k \in 1..Len(out[f].keys) :
                   out[f].keys[k].name = "a" =>
                     out[f].keys[k].id = sha1("a") /\ out[f].keys[k].atype = "string"
              /\ \A e \in 1..Len(out[f].elems) :
                   \A d \in 1..Len(out[f].elems[e].data) :
                     out[f].elems[e].data[d].key \notin reserved =>
                       out[f].elems[e].data[d].key = sha1("a")

(***************************************************************************)
(* Entities without a primary key.                                         *)
(***************************************************************************)
\* C19: generateDataElements gives an element for every entity, in order:
\* with the export ID as id for an entity that has a primary key, with a
\* generated identifier for one that has none, and with one warning for
\* each entity that has none.
C19_ElementIds ==
  ret.fn = "generateDataElements" =>
    /\ ret.ok
    /\ Len(ret.value) = Len(CalledOn)
    /\ \A i \in 1..Len(CalledOn) :
         /\ ret.value[i].data[1] = Datum(ncUUIDProperty, CalledOn[i].uid)
         /\ IF CalledOn[i].uid /= UNDEF
            THEN ret.value[i].id = CalledOn[i].exportID
            ELSE ret.value[i].id = "uuid()"
    /\ ret.warnings = Cardinality({i \in 1..Len(CalledOn) : CalledOn[i].uid = UNDEF})

\* The first of three nodes has no primary key.
C19_Witness ==
  /\ ret.fn = "generateDataElements" /\ ret.arg = "node" /\ ret.ok
  /\ Len(heap0[1].nodes) = 3
  /\ heap0[1].nodes[1].uid = UNDEF /\ heap0[1].nodes[2].uid /= UNDEF
  /\ Len(ret.value) = 3 /\ ret.warnings = 1
  /\ ret.value[2].id = 2 /\ ret.value[3].id = 3

(***************************************************************************)
(* The ego property.                                                       *)
(***************************************************************************)
\* C20: after insertEgoIntoSessionNetworks every node and every edge of
\* every session holds, under the ego property, the primary key of the ego
\* of its session.
C20_EgoInserted ==
  ret.fn = "insertEgoIntoSessionNetworks" =>
    /\ Len(ret.value) = Len(heap0)
    /\ \A s \in 1..Len(ret.value) :
         /\ \A i \in 1..Len(ret.value[s].nodes) :
              ret.value[s].nodes[i].ego = heap0[s].ego.uid
         /\ \A j \in 1..Len(ret.value[s].edges) :
              ret.value[s].edges[j].ego = heap0[s].ego.uid

(***************************************************************************)
(* Properties of the calls of generateKeyElements.                         *)
(***************************************************************************)
\* The <key>s of a call that are none of the reserved ones.
DeclaredKeys ==
  SelectSeq(ret.value,
            LAMBDA k : k.id \notin {"label", ncTypeProperty, ncUUIDProperty,
                                    ncSourceUUID, ncTargetUUID})

\* C21: the <key>s declared for the attribute a follow its codebook type:
\* one boolean key for boolean; one key of the type getGraphMLTypeForKey
\* gives over the collection (string when it gives none) for ordinal and
\* number; one float key for scalar; two double keys a_X and a_Y for
\* layout; one boolean key a_hash(value) per option and no key a for
\* categorical; one string key otherwise.  Every <key> has an attr.type.
C21_KeysByType ==
  ret.fn = "generateKeyElements"
  /\ (\E i \in 1..Len(CalledOn) : HasAttr(CalledOn[i].attrs, "a")) =>
    LET forA == SelectSeq(DeclaredKeys, LAMBDA k : k.id /= sha1("type"))
        t == DefOfA.type
        ids == {forA[i].id : i \in 1..Len(forA)}
        OneOf(atype) == Len(forA) = 1 /\ forA[1].atype = atype
        inferred == getGraphMLTypeForKey(CalledOn, "a")
    IN /\ CASE t = "boolean" -> OneOf("boolean")
            [] t \in {"ordinal", "number"} ->
                 OneOf(IF inferred = "" THEN "string" ELSE inferred)
            [] t = "scalar" -> OneOf("float")
            [] t = "layout" ->
                 /\ Len(forA) = 2 /\ ids = {"a_X", "a_Y"}
                 /\ forA[1].atype = "double" /\ forA[2].atype = "double"
            [] t = "categorical" ->
                 /\ Len(forA) = Len(DefOfA.options)
                 /\ ids = {"a_" \o sha1(DefOfA.options[j]) : j \in 1..Len(DefOfA.options)}
                 /\ \A i \in 1..Len(forA) : forA[i].atype = "boolean"
                 /\ "a" \notin ids
            [] OTHER -> OneOf("string")
       /\ \A i \in 1..Len(ret.value) : ret.value[i].atype /= UNDEF

\* C22: with nothing excluded, every attribute key that an entity of the
\* collection holds has a declaration in the output: with the key as id
\* where the codebook gives the attribute a type for the entity that holds
\* it, with the hash of the key as id otherwise.  (An attribute of type
\* layout or categorical is declared by the keys that expand it.)
C22_EveryKeyDeclared ==
  ret.fn = "generateKeyElements" =>
    \A i \in 1..Len(CalledOn) :
      \A n \in 1..Len(CalledOn[i].attrs) :
        LET key == CalledOn[i].attrs[n].k
            type == getAttributePropertyFromCodebook(codebook, ret.arg, CalledOn[i], key, "type")
        IN \E d \in 1..Len(ret.value) :
             CASE type \in {"layout", "categorical"} ->
                    ret.value[d].id \in {key, key \o "_X"}
                                        \cup {key \o "_" \o sha1(o) : o \in {"A", "B"}}
               [] Defined(type) -> ret.value[d].id = key
               [] OTHER -> ret.value[d].id = sha1(key)

(***************************************************************************)
(* The ego <key>s of a unified export.                                     *)
(***************************************************************************)
\* The egos of the network a generator was given, in session order.
EgosOf(g) == [k \in 1..Len(heap0[gen[g].net].ego) |-> heap0[gen[g].net].ego[k].ego]

\* The places of the ego key fragments among the fragments yielded.
EgoKeysAt(out) == {j \in 1..Len(out) : out[j].kind = "keys" /\ out[j].for = "ego"}

\* C23: with unification, a generator that has come to a graph section has
\* yielded the ego keys once, before every graph header, and they hold a
\* declaration for every attribute key of every ego: with the key as id
\* where the codebook defines the variable, with its hash otherwise.
C23_EgoKeysOfUnion ==
  \A g \in DOMAIN gen :
    Unify /\ (HasKind(gen[g].out, "graphHeader") \/ gen[g].pc = "done") =>
      LET out == gen[g].out
          egos == EgosOf(g)
      IN /\ Cardinality(EgoKeysAt(out)) = 1
         /\ \A j \in EgoKeysAt(out) :
              /\ \A h \in 1..Len(out) : out[h].kind = "graphHeader" => j < h
              /\ \A k \in 1..Len(egos) :
                   \A n \in 1..Len(egos[k].attrs) :
                     \E d \in 1..Len(out[j].keys) :
                       out[j].keys[d].id =
                         IF Defined(getEgoVariableInfo(codebook, egos[k].attrs[n].k).type)
                         THEN egos[k].attrs[n].k
                         ELSE sha1(egos[k].attrs[n].k)

\* Two egos with different attributes: a on the first, b on the second.
C23_Witness ==
  \E g \in DOMAIN gen :
    /\ Unify /\ gen[g].pc = "done"
    /\ Len(EgosOf(g)) = 2
    /\ AttrKeysOf(EgosOf(g)[1].attrs) = <<"a">>
    /\ AttrKeysOf(EgosOf(g)[2].attrs) = <<"b">>
    /\ \E j \in EgoKeysAt(gen[g].out) :
         [d \in 1..Len(gen[g].out[j].keys) |-> gen[g].out[j].keys[d].id] = <<"a", "b">>

\* C24: with unification, the attr.type declared for the ego variable a, a
\* number in the codebook, is the type getGraphMLTypeForKey gives over the
\* values of a on all the egos.
C24_EgoKeyTypeOverAllEgos ==
  \A g \in DOMAIN gen :
    Unify =>
      \A j \in EgoKeysAt(gen[g].out) :
        \A d \in 1..Len(gen[g].out[j].keys) :
          gen[g].out[j].keys[d].id = "a" =>
            gen[g].out[j].keys[d].atype = getGraphMLTypeForKey(EgosOf(g), "a")

MaxStreamChunks == 3
MaxChunkBytes == 2

InitWriter ==
  \E chunks \in SeqsUpTo(0..MaxChunkBytes, MaxStreamChunks),
     mode \in {"writeStream", "createWriteStream"} :
    /\ fw = [NoWriter EXCEPT !.mode = mode, !.chunks = chunks,
                             !.settled = IF mode = "createWriteStream"
                                         THEN "resolved" ELSE "pending"]
    /\ NoExport
    /\ rs = NoRun
    /\ scan = NoScan
    /\ ret = NoCall

\* The 'data' event of the stream, or write(chunk, encoding, callback) of the
\* Writable.
StreamData ==
  /\ fw.n < Len(fw.chunks) /\ ~fw.ended /\ ~fw.failed
  /\ LET from == ReceivedBytes(fw.chunks, fw.n)
         chunkByteArray == [i \in 1..fw.chunks[fw.n + 1] |-> from + i]
     IN fw' = onChunkReceived([fw EXCEPT !.n = @ + 1], chunkByteArray)
  /\ UNCHANGED <<heap, heap0, codebook, exportOptions, gen, rs, scan, ret>>

\* The 'end' event of the stream.
StreamEnd ==
  /\ fw.mode = "writeStream" /\ fw.n = Len(fw.chunks) /\ ~fw.ended /\ ~fw.failed
  /\ fw' = IF Len(fw.bufferedChunkBytes) = 0
           THEN settle([fw EXCEPT !.ended = TRUE], "resolved")
           ELSE [fw EXCEPT !.ended = TRUE, !.reachedEndOfInputStream = TRUE]
  /\ UNCHANGED <<heap, heap0, codebook, exportOptions, gen, rs, scan, ret>>

\* The 'error' event of the stream.
StreamError ==
  /\ fw.mode = "writeStream" /\ ~fw.ended /\ ~fw.failed
  /\ fw' = handleError([fw EXCEPT !.failed = TRUE])
  /\ UNCHANGED <<heap, heap0, codebook, exportOptions, gen, rs, scan, ret>>

\* The write in flight ends after written of its bytes: writeend.
WriteEnd ==
  /\ fw.readyState = "WRITING"
  /\ \E written \in 0..Len(fw.pending) :
       fw' = onChunkWritten([fw EXCEPT !.file = @ \o SubSeq(fw.pending, 1, written),
                                       !.length = @ + written,
                                       !.readyState = "DONE",
                                       !.pending = <<>>])
  /\ UNCHANGED <<heap, heap0, codebook, exportOptions, gen, rs, scan, ret>>

\* The write in flight fails: onerror, then writeend.
WriteError ==
  /\ fw.readyState = "WRITING"
  /\ fw' = onChunkWritten(handleError([fw EXCEPT !.readyState = "DONE",
                                                 !.error = TRUE,
                                                 !.pending = <<>>]))
  /\ UNCHANGED <<heap, heap0, codebook, exportOptions, gen, rs, scan, ret>>

NextWriter ==
  \/ StreamData
  \/ StreamEnd
  \/ StreamError
  \/ WriteEnd
  \/ WriteError

SpecWriter == InitWriter /\ [][NextWriter]_vars

\* The bytes 1..k in their order.
UpTo(k) == [i \in 1..k |-> i]

\* C26: in writeStream, as long as nothing has failed, the file holds the
\* received bytes in the order of their arrival, none lost and none twice,
\* with whatever of the write in flight is still to be written next; and the
\* promise is resolved only when the stream has ended and the file holds
\* every received byte.
C26_WrittenInOrder ==
  (fw.mode = "writeStream" /\ fw.settled /= "rejected") =>
    /\ \E k \in 0..ReceivedBytes(fw.chunks, fw.n) :
         /\ fw.file = UpTo(k)
         /\ fw.file \o fw.bufferedChunkBytes = UpTo(ReceivedBytes(fw.chunks, fw.n))
    /\ fw.settled = "resolved" =>
         /\ fw.ended
         /\ fw.n = Len(fw.chunks)
         /\ fw.file = UpTo(ReceivedBytes(fw.chunks, Len(fw.chunks)))
         /\ Len(fw.pending) = 0

\* A stream of a chunk of two bytes and a chunk of one: the first write ended
\* after one byte, the second chunk arrived during a write, the last write
\* started at length 1, and the promise is resolved.
C26_Witness ==
  /\ fw.mode = "writeStream" /\ fw.chunks = <<2, 1>>
  /\ fw.settled = "resolved" /\ fw.ended
  /\ fw.previousFileWriterLength = 1
  /\ fw.file = <<1, 2, 3>>
  /\ fw.readyState = "DONE"

\* C27: in writeStream and createWriteStream fileWriter.write is never
\* called during a write, and a chunk that arrives during a write is
\* buffered and leaves the write in flight as it is; a write follows a write
\* only out of the writeend handler.
C27_OneWriteInFlight ==
  [][/\ ~fw'.overlap
     /\ (fw.readyState = "WRITING" /\ fw'.n = fw.n + 1) =>
          /\ fw'.readyState = "WRITING"
          /\ fw'.pending = fw.pending
          /\ fw'.file = fw.file
          /\ Len(fw'.bufferedChunkBytes) =
               Len(fw.bufferedChunkBytes) + fw.chunks[fw.n + 1]
     /\ (fw.readyState = "WRITING" /\ fw'.readyState = "WRITING"
           /\ fw'.n = fw.n /\ fw'.ended = fw.ended) =>
          /\ fw'.pending = fw'.bufferedChunkBytes
          /\ fw'.previousFileWriterLength = fw'.length]_vars

\* The Writable of createWriteStream holds a second chunk, received during the
\* write of the first, while the first is in flight.
C27_Witness ==
  /\ fw.mode = "createWriteStream" /\ fw.n = 2 /\ fw.chunks = <<1, 2, 1>>
  /\ fw.readyState = "WRITING"
  /\ fw.pending = <<1>>
  /\ fw.bufferedChunkBytes = <<1, 2, 3>>
  /\ ~fw.overlap

(***************************************************************************)
(* The <key> ids of a whole document.                                      *)
(***************************************************************************)
\* The places of the <key>s among the fragments yielded: fragment and place
\* in the fragment.
KeysAt(out) ==
  UNION {{<<j, d>> : d \in 1..Len(out[j].keys)} :
           j \in {i \in 1..Len(out) : out[i].kind = "keys"}}

\* C28: no two <key>s of the document of one generator carry the same id;
\* here, no <key> of one key fragment (ego, node or edge keys) carries the id
\* of a <key> of another.
C28_KeyIdsUnique ==
  \A g \in DOMAIN gen :
    \A p, q \in KeysAt(gen[g].out) :
      p[1] /= q[1] => gen[g].out[p[1]].keys[p[2]].id /= gen[g].out[q[1]].keys[q[2]].id

(***************************************************************************)
(* getGraphMLTypeForKey and the order of the entities.                     *)
(***************************************************************************)
\* C29: the type a scan returns is the type of every collection that holds
\* the same entities in another order.
C29_OrderIndependent ==
  scan.pc = "returned" =>
    LET n == Len(scan.data)
    IN \A p \in [1..n -> 1..n] :
         (\A i, j \in 1..n : i /= j => p[i] /= p[j]) =>
           getGraphMLTypeForKey([i \in 1..n |-> scan.data[p[i]]], scan.key)
             = scan.result

(***************************************************************************)
(* The <node> and <edge> elements of a whole document.                     *)
(***************************************************************************)
\* The primary keys of the elements of the fragments of one kind in the
\* graph section of a session, from the j-th fragment on, in the order
\* yielded.
RECURSIVE FragUids(_, _, _, _)
FragUids(out, j, kind, sid) ==
  IF j > Len(out) THEN <<>>
  ELSE (IF out[j].kind = kind /\ SectionOf(out, j) = sid
        THEN [e \in 1..Len(out[j].elems) |-> out[j].elems[e].data[1].text]
        ELSE <<>>)
       \o FragUids(out, j + 1, kind, sid)

\* The primary keys of the entities of a collection that the graph section
\* of a session is to hold, in the order of the collection: all of them
\* without unification, those of the session with it.
SectionUids(coll, sid) ==
  LET RECURSIVE From(_)
      From(i) ==
        IF i > Len(coll.items) THEN <<>>
        ELSE (IF Unify => coll.items[i].sid = sid
              THEN <<coll.items[i].uid>> ELSE <<>>) \o From(i + 1)
  IN From(1)

\* How many elements of one kind a generator has yielded.
Emitted(out, kind) ==
  LET RECURSIVE Sum(_)
      Sum(j) == IF j = 0 THEN 0
                ELSE (IF out[j].kind = kind THEN Len(out[j].elems) ELSE 0) + Sum(j - 1)
  IN Sum(Len(out))

\* C30: when a generator has ended, in both modes, every node and every edge
\* of its network has come in exactly one element: there are as many
\* elements as entities, and every graph section holds its entities, each
\* once, in the order of the collection.
C30_EveryEntityOnce ==
  \A g \in DOMAIN gen :
    Finished(gen[g]) =>
      LET out == gen[g].out
          nw0 == heap0[gen[g].net]
          hdrs == HeadersOf(out)
      IN /\ Emitted(out, "nodes") = Len(nw0.nodes.items)
         /\ Emitted(out, "edges") = Len(nw0.edges.items)
         /\ \A h \in 1..Len(hdrs) :
              /\ FragUids(out, 1, "nodes", hdrs[h].sid) = SectionUids(nw0.nodes, hdrs[h].sid)
              /\ FragUids(out, 1, "edges", hdrs[h].sid) = SectionUids(nw0.edges, hdrs[h].sid)

====
